---- MODULE Spec2Model ----
(***************************************************************************)
(* Model of the data-acquisition node: the protocol codec (protocol.c),    *)
(* the acquisition task (task_acquisition.c), the network task             *)
(* (task_network.c), the ADC driver (adc.c) and the parts of the UDP       *)
(* socket layer (udp_socket.c) the two tasks use.                          *)
(*                                                                         *)
(* The specifications share the variables:                                 *)
(*   SpecCodec      the codec's functions called one at a time on          *)
(*                  enumerated inputs (builders, parser, round trip);      *)
(*   SpecBatch, SpecThreshold, SpecLink, SpecSequence, SpecCommands,       *)
(*   SpecChannel, SpecConfigure, SpecState                                 *)
(*                  the acquisition task, the network task and the         *)
(*                  Ethernet notification interleaved under the priorities *)
(*                  of the RTOS, from boot, each with the datagrams and    *)
(*                  the ADC readings of one concern;                       *)
(*   SpecReset, SpecStats, SpecOrder, SpecLargeBatch                       *)
(*                  the same tasks from a state after bring-up in which    *)
(*                  the batch size is configured;                          *)
(*   SpecLinkFair   SpecLink with the network task's loop scheduled;       *)
(*   SpecInvalid    the tasks from boot with datagrams the protocol has no *)
(*                  place for;                                             *)
(*   SpecQueue, SpecSocket, SpecSocketFair, SpecSend                       *)
(*                  one slot of the socket layer: the stack's dispatch and *)
(*                  the threads that create, close, read and write it.     *)
(*   SpecIndex, SpecRestart                                                *)
(*                  the tasks after bring-up with a batch close to the     *)
(*                  end of the sample buffer, and with acquisition stopped *)
(*                  and started again;                                     *)
(*   SpecAdcRead, SpecAdcReadFair, SpecAdcDriver                           *)
(*                  the ADC driver: a synchronous read, the conversion     *)
(*                  interrupt and a channel change; the driver's calls in  *)
(*                  any order;                                             *)
(*   SpecLinkCache  the link-state cache, written by the Ethernet          *)
(*                  notification and read by udp_socket_is_link_up;        *)
(*   SpecPool       the pool of socket slots under socket_mutex: create,   *)
(*                  close, callback registration and dispatch.             *)
(***************************************************************************)
EXTENDS Integers, Sequences, FiniteSets, TLC

VARIABLES
    \* ---- protocol.c
    sequence_counter,   \* static uint16_t sequence_counter
    \* ---- codec harness (SpecCodec): one call of a codec function
    c_call,             \* the call made last: its name and its arguments
    c_res,              \* what the call returned
    c_buf,              \* the caller's output buffer (the bytes written so far)
    c_out_len,          \* the caller's out_len variable
    c_parse,            \* result of parsing c_buf back (round trip)
    c_n,                \* number of codec calls made
    \* ---- task_acquisition.c
    acq_state,          \* static volatile acquisition_state_t current_state
    current_channel,    \* static adc_channel_t current_channel
    threshold_mv,       \* static uint16_t threshold_mv
    batch_size,         \* static uint16_t batch_size
    sample_buffer,      \* static uint16_t sample_buffer[]: the entries written so far
    sample_index,       \* static uint16_t sample_index
    acq_stats,          \* static acquisition_stats_t stats
    acq_pc,             \* where acquisition_task is in its loop
    acq_loc,            \* its locals and registers
    \* ---- task_network.c
    net_state,          \* static volatile network_state_t current_state
    net_pc,             \* where network_task is
    net_loc,            \* the datagram it is handling
    remote_target,      \* static udp_endpoint_t remote_target
    target_set_by_start,
    net_stats,          \* static network_stats_t stats
    \* ---- udp_socket.c and the IP stack
    s_eth_link_known,
    s_eth_link_up,
    ip_assigned,        \* the interface has a non-zero IPv4 address
    wire,               \* the datagram a task handed to the stack in its current iteration
    \* ---- udp_socket.c: one slot of socket_pool and the threads that use it
    flags,              \* uint32_t flags of the slot
    rx_queue,           \* osMessageQueueId_t rx_queue and the messages in it
    rx_pool,            \* osMemoryPoolId_t rx_pool and the blocks allocated from it
    rx_dropped,         \* uint32_t rx_dropped
    recv_pc,            \* where the thread calling udp_socket_recv is
    recv_loc,           \* its arguments and locals
    recv_res,           \* what its last call returned
    close_pc,           \* where the thread calling udp_socket_close is
    send_res,           \* what the last udp_socket_send returned and did
    sk_obs,             \* what the socket properties look at
    n_arrived,          \* datagrams the stack delivered so far
    n_sock,             \* socket calls made so far
    \* ---- adc.c, the converter and the threads that use the driver
    adc_last_value,     \* static volatile uint16_t adc_last_value
    adc_done,           \* static volatile uint8_t adc_done
    adc_initialized,    \* static volatile uint8_t adc_initialized
    adc_current_channel,
    adc_hw,             \* the converter: a conversion in flight, an interrupt pending
    adc_pc,             \* where the thread calling the driver is
    adc_loc,            \* its locals
    adc_res,            \* what its last call returned
    adc_obs,            \* what the driver properties look at
    n_adc,              \* driver calls made so far
    n_chan,             \* channel changes made so far
    \* ---- udp_socket.c, the link cache seen store by store
    eth_pc,             \* where netETH_Notify is: the event it is storing
    lk_call,            \* a call of udp_socket_is_link_up: position, locals, result
    \* ---- udp_socket.c, the socket pool and its mutex
    socket_pool,        \* static udp_socket_internal_t socket_pool[UDP_NUM_SOCKS]
    socket_mutex,       \* the thread that holds socket_mutex, "none" if none does
    net_stack,          \* the stack's UDP sockets handed out by netUDP_GetSocket
    pl_call,            \* per thread: the call of the socket layer it is in
    pl_obs,             \* what the pool properties look at
    \* ---- observation
    obs,                \* what the properties look at (written, never read, by the tasks)
    n_reads,            \* ADC conversions so far
    n_dgrams,           \* datagrams received so far
    n_link              \* Ethernet notifications so far

(***************************************************************************)
(* Program constants                                                       *)
(***************************************************************************)
PROTOCOL_MAGIC == 55930            \* 0xDA7A
PROTOCOL_MAX_DATA_SIZE == 1400
MSG_TYPE_PING == 1
MSG_TYPE_PONG == 2
MSG_TYPE_DATA == 16
MSG_TYPE_CMD == 32
MSG_TYPE_STATUS == 48
HEADER_SIZE == 7                   \* sizeof(protocol_header_t), packed
DATA_PAYLOAD_SIZE == 4             \* sizeof(protocol_data_payload_t), packed
STATUS_PAYLOAD_SIZE == 12          \* sizeof(protocol_status_payload_t), packed
CMD_PAYLOAD_SIZE == 4              \* sizeof(protocol_cmd_payload_t), packed
U16 == 65536                       \* range of uint16_t

\* a pointer is the set of the offsets it may point at: NULL is the empty set
NULL == {}

(***************************************************************************)
(* Byte layout: the structs are packed and the target is little-endian, so *)
(* a uint16_t field is two bytes, low byte first.                          *)
(***************************************************************************)
LE16(v) == << v % 256, (v \div 256) % 256 >>

\* (uint32_t values are kept below 2^31, the largest integer TLC computes with)
LE32(v) == << v % 256, (v \div 256) % 256, (v \div 65536) % 256, (v \div 16777216) % 256 >>

\* the uint16_t stored at byte offset off (0-based) of data
RD16(data, off) == data[off + 1] + 256 * data[off + 2]

RD32(data, off) ==
    data[off + 1] + 256 * data[off + 2] + 65536 * data[off + 3] + 16777216 * data[off + 4]

\* memcpy(payload->samples, samples, n * sizeof(uint16_t)): sample i is bytes 2i-1, 2i
SamplesBytes(samples, n) ==
    [i \in 1 .. 2 * n |-> LE16(samples[(i + 1) \div 2])[2 - (i % 2)]]

\* buffer after len(bytes) bytes were written at its start
WriteAt0(buffer, bytes) ==
    IF Len(buffer) <= Len(bytes) THEN bytes
    ELSE bytes \o SubSeq(buffer, Len(bytes) + 1, Len(buffer))

(***************************************************************************)
(* protocol.c: build_header.  The header carries the counter's value       *)
(* before the increment; the counter is a uint16_t.                        *)
(***************************************************************************)
\* (mutation of HeaderSequence: the counter is incremented before it is stored)
HeaderSequence_PreIncrement(seq) == (seq + 1) % U16

HeaderSequence(seq) == seq

NextSequence(seq) == (seq + 1) % U16

build_header(type, payload_len, seq) ==
    LE16(PROTOCOL_MAGIC) \o << type >> \o LE16(HeaderSequence(seq)) \o LE16(payload_len % U16)

\* (mutation of BuildFail: the header is built before the arguments are checked)
BuildFail_AfterHeader(status, buffer, out_len, seq) ==
    [status |-> status, buffer |-> buffer, out_len |-> out_len, seq |-> (seq + 1) % U16]

\* what every builder returns when it fails: nothing is written
BuildFail(status, buffer, out_len, seq) ==
    [status |-> status, buffer |-> buffer, out_len |-> out_len, seq |-> seq]

BuildOk(bytes, buffer, seq) ==
    [status |-> "OK", buffer |-> WriteAt0(buffer, bytes), out_len |-> Len(bytes),
     seq |-> NextSequence(seq)]

(***************************************************************************)
(* protocol_build_data_packet.  buffer, samples and out are NULL or not;   *)
(* buffer is the content of the caller's buffer, out_len the value of the  *)
(* caller's variable, seq the sequence counter.                            *)
(***************************************************************************)
\* (mutation of DataPayloadSize: the 4 bytes before the samples are forgotten)
DataPayloadSize_SamplesOnly(sample_count) == sample_count * 2

DataPayloadSize(sample_count) == DATA_PAYLOAD_SIZE + sample_count * 2

DataTotalSize(sample_count) == HEADER_SIZE + DataPayloadSize(sample_count)

protocol_build_data_packet(bufNull, buffer, buffer_len, channel, smpNull, samples, sample_count, outNull, out_len, seq) ==
    IF bufNull \/ smpNull \/ outNull
    THEN BuildFail("ERROR", buffer, out_len, seq)
    ELSE IF buffer_len < DataTotalSize(sample_count)
    THEN BuildFail("BUFFER_TOO_SMALL", buffer, out_len, seq)
    ELSE BuildOk(build_header(MSG_TYPE_DATA, DataPayloadSize(sample_count), seq)
                 \o << channel, 0 >> \o LE16(sample_count)
                 \o SamplesBytes(samples, sample_count), buffer, seq)

protocol_build_ping(bufNull, buffer, buffer_len, outNull, out_len, seq) ==
    IF bufNull \/ outNull
    THEN BuildFail("ERROR", buffer, out_len, seq)
    ELSE IF buffer_len < HEADER_SIZE
    THEN BuildFail("BUFFER_TOO_SMALL", buffer, out_len, seq)
    ELSE BuildOk(build_header(MSG_TYPE_PING, 0, seq), buffer, seq)

protocol_build_pong(bufNull, buffer, buffer_len, outNull, out_len, seq) ==
    IF bufNull \/ outNull
    THEN BuildFail("ERROR", buffer, out_len, seq)
    ELSE IF buffer_len < HEADER_SIZE
    THEN BuildFail("BUFFER_TOO_SMALL", buffer, out_len, seq)
    ELSE BuildOk(build_header(MSG_TYPE_PONG, 0, seq), buffer, seq)

\* the packed protocol_status_payload_t as bytes
StatusBytes(st) ==
    << st.acquiring, st.channel >> \o LE16(st.threshold_mv) \o LE32(st.uptime)
    \o LE32(st.samples_sent)

protocol_build_status(bufNull, buffer, buffer_len, stNull, status, outNull, out_len, seq) ==
    IF bufNull \/ stNull \/ outNull
    THEN BuildFail("ERROR", buffer, out_len, seq)
    ELSE IF buffer_len < HEADER_SIZE + STATUS_PAYLOAD_SIZE
    THEN BuildFail("BUFFER_TOO_SMALL", buffer, out_len, seq)
    ELSE BuildOk(build_header(MSG_TYPE_STATUS, STATUS_PAYLOAD_SIZE, seq)
                 \o StatusBytes(status), buffer, seq)

(***************************************************************************)
(* protocol_parse_packet(data, len, header, payload, payload_len) with     *)
(* data and header non-null.  payload is the offset of the view in data,   *)
(* or NULL.  The header is copied out before the magic is looked at.       *)
(***************************************************************************)
ParsedHeader(data) ==
    [magic |-> RD16(data, 0), msg_type |-> data[3], sequence |-> RD16(data, 3),
     payload_len |-> RD16(data, 5)]

\* (mutation of LengthMismatch: a datagram longer than its packet is refused)
LengthMismatch_Exact(len, expected_len) == len # expected_len

LengthMismatch(len, expected_len) == len < expected_len

protocol_parse_packet(data, len) ==
    IF len < HEADER_SIZE
    THEN [status |-> "INVALID_MSG", header_copied |-> FALSE]
    ELSE LET header == ParsedHeader(data) IN
         IF header.magic # PROTOCOL_MAGIC
         THEN [status |-> "INVALID_MSG", header_copied |-> TRUE, header |-> header]
         ELSE IF LengthMismatch(len, HEADER_SIZE + header.payload_len)
         THEN [status |-> "INVALID_MSG", header_copied |-> TRUE, header |-> header]
         ELSE [status |-> "OK", header_copied |-> TRUE, header |-> header,
               payload |-> IF header.payload_len > 0 THEN {HEADER_SIZE} ELSE NULL,
               payload_len |-> header.payload_len]

\* the bytes a (payload, payload_len) view of data denotes
PayloadView(data, payload, payload_len) ==
    IF payload = NULL THEN << >>
    ELSE LET off == CHOOSE o \in payload : TRUE IN SubSeq(data, off + 1, off + payload_len)

\* protocol_parse_command(payload, payload_len, cmd); payload is a view (bytes) or NULL
protocol_parse_command(payloadNull, payload, payload_len) ==
    IF payloadNull
    THEN [status |-> "ERROR"]
    ELSE IF payload_len < CMD_PAYLOAD_SIZE
    THEN [status |-> "INVALID_MSG"]
    ELSE [status |-> "OK",
          cmd |-> [cmd |-> payload[1], param_type |-> payload[2], param |-> RD16(payload, 2)]]

(***************************************************************************)
(* The two tasks.  Constants of task_acquisition.h, task_acquisition.c,    *)
(* task_network.c, protocol.h and udp_socket.h.                            *)
(***************************************************************************)
ADC_VREF_MV == 3300
ADC_MAX_VALUE == 4095
ADC_CHANNEL_0 == 0

ADC_CHANNEL_MAX == 8
TASK_ACQUISITION_DEFAULT_CHANNEL == 0
TASK_ACQUISITION_DEFAULT_THRESHOLD_MV == 1650
ACQUISITION_DEFAULT_BATCH_SIZE == 100
ACQUISITION_MAX_BATCH_SIZE == 500
ACQ_TX_BUFFER_SIZE == 512          \* static uint8_t tx_buffer[512] of task_acquisition.c
PACKET_BUFFER_SIZE == 1500         \* tx_buffer, rx_buffer of task_network.c
UDP_MAX_PAYLOAD_SIZE == 1472
LOG_LEVEL_NONE == 5
CMD_START_ACQ == 1
CMD_STOP_ACQ == 2
CMD_GET_STATUS == 3
CMD_CONFIGURE == 4
CONFIG_THRESHOLD_PERCENT == 0
CONFIG_THRESHOLD_MV == 1
CONFIG_BATCH_SIZE == 2
CONFIG_CHANNEL == 3
CONFIG_RESET_SEQUENCE == 4
CONFIG_LOG_LEVEL == 5

\* task_acquisition.c: mv_to_adc, in uint32_t arithmetic, cast to uint16_t
mv_to_adc(mv) == ((mv * ADC_MAX_VALUE) \div ADC_VREF_MV) % U16

\* (mutation of Qualifies: every reading is buffered)
Qualifies_Always(adc_value, threshold_adc) == adc_value >= 0

\* the test of the sampling loop: adc_value >= threshold_adc
Qualifies(adc_value, threshold_adc) == adc_value >= threshold_adc

\* acquisition_set_threshold_percent: percent * ADC_VREF_MV / 100
percent_to_mv(percent) == ((percent * ADC_VREF_MV) \div 100) % U16

\* network_is_ready()
network_is_ready == net_state = "READY"

\* udp_socket_is_link_up(): the cached notification, or before any notification
\* whether the interface has an address
udp_socket_is_link_up == IF s_eth_link_known THEN s_eth_link_up ELSE ip_assigned

\* sample_buffer[i] of the zero-initialised array of which sample_buffer holds the
\* entries up to the highest one written
BufferAt(buf, i) == IF i < Len(buf) THEN buf[i + 1] ELSE 0

\* (mutation of BufferWrite: the sample goes to the front of the array)
BufferWrite_Front(buf, i, v) == << v >> \o buf

\* sample_buffer after sample_buffer[i] = v
BufferWrite(buf, i, v) ==
    [k \in 1 .. (IF i < Len(buf) THEN Len(buf) ELSE i + 1) |->
        IF k = i + 1 THEN v ELSE BufferAt(buf, k - 1)]

\* the first n entries of sample_buffer, as memcpy reads them
BufferPrefix(buf, n) == [k \in 1 .. n |-> BufferAt(buf, k - 1)]

NoEndpoint == [ip |-> << 0, 0, 0, 0 >>, port |-> 0]

NoWire == [by |-> "none"]

\* the locals of acquisition_task when none of them is live
AcqIdleLocals ==
    [adc_value |-> 0, adc_channel |-> 0, threshold_adc |-> 0, idx |-> 0, cmp |-> 0, count |-> 0, channel |-> 0, seq |-> 0,
     tx |-> << >>, packet_len |-> 0, dest |-> NoEndpoint, sent |-> 0,
     outcome |-> "none",   \* how building and sending the batch went
     epoch |-> 0]          \* (history) obs.epoch when adc_value was read

\* memset(&stats, 0, sizeof(stats)) of acquisition_init
NoAcqStats == [samples_collected |-> 0, packets_sent |-> 0, errors |-> 0]

NetIdleLocals == [remote |-> NoEndpoint]

NoObs ==
    [gate |-> << >>,          \* the threshold (ADC units) each buffered sample passed
     chan |-> << >>,          \* the channel each buffered sample was read on
     first |-> NoEndpoint,    \* the sender of the first START_ACQ handled
     reset_last |-> FALSE,    \* the datagram handled last was CONFIGURE(reset sequence)
     invalid_last |-> FALSE,  \* the datagram handled last was one the protocol has no place for
     batch_done |-> 0,        \* batch_size when the batch was found complete
     built |-> [type |-> "none"],   \* the DATA packet the acquisition task built last
     data |-> [type |-> "none"],    \* the DATA packet the stack accepted last
     seqs |-> << >>,          \* sequence fields of the packets built since the last reset
     taken |-> << >>,         \* the qualifying readings since the last batch boundary
     unsent |-> << >>,        \* the qualifying readings since the last DATA packet sent
     reply |-> [type |-> "none"],   \* the datagram the network task handles in this iteration
     epoch |-> 0,             \* acquisition_start calls that took Idle to Running
     epochs |-> << >>,        \* the value of epoch when each buffered sample was read
     stop |-> [on |-> FALSE, at |-> "top", reads |-> 0, stored |-> 0, sent |-> 0]]
                              \* since the first STOP_ACQ handled with no acquisition_start
                              \* after it: where the acquisition task was, what it did since

task_vars ==
    << acq_state, current_channel, threshold_mv, batch_size, sample_buffer, sample_index,
       acq_stats, acq_pc, acq_loc, net_state, net_pc, net_loc, remote_target, target_set_by_start,
       net_stats, s_eth_link_known, s_eth_link_up, ip_assigned, wire, obs, n_reads,
       n_dgrams, n_link >>

codec_vars == << c_call, c_res, c_buf, c_out_len, c_parse, c_n >>

sock_vars ==
    << flags, rx_queue, rx_pool, rx_dropped, recv_pc, recv_loc, recv_res, close_pc,
       send_res, sk_obs, n_arrived, n_sock >>

adc_vars ==
    << adc_last_value, adc_done, adc_initialized, adc_current_channel, adc_hw, adc_pc,
       adc_loc, adc_res, adc_obs, n_adc, n_chan >>

eth_vars == << eth_pc, lk_call >>

pool_vars == << socket_pool, socket_mutex, net_stack, pl_call, pl_obs >>

\* what the two tasks never touch
harness_vars == << codec_vars, sock_vars, adc_vars, eth_vars, pool_vars >>

vars ==
    << sequence_counter, codec_vars, task_vars, sock_vars, adc_vars, eth_vars, pool_vars >>

(***************************************************************************)
(* udp_socket.c: one slot of socket_pool, the stack's dispatch to it and    *)
(* the threads that create, close, read and write it                        *)
(***************************************************************************)
UDP_RECV_BUFFER_SIZE == UDP_MAX_PAYLOAD_SIZE

\* depth of a slot's queue and of its pool (Net_Config_UDP.h)
UDP_RX_QUEUE_LEN == 2

SOCKET_FLAG_USED == "USED"
SOCKET_FLAG_BOUND == "BOUND"
SOCKET_FLAG_CLOSING == "CLOSING"

\* udp_rx_pkt_t as the properties see it: which datagram it is, and its len field
NoPkt == [id |-> 0, len |-> 0]

UDP_RX_PKT_CLOSING == [id |-> -1, len |-> 0]

NoQueue == [null |-> TRUE, msgs |-> << >>]

NoPool == [null |-> TRUE, used |-> 0]

RecvIdleLocals == [buffer_len |-> 0, os_status |-> "none", pkt |-> NoPkt, freed |-> FALSE, closing |-> FALSE]

NoRecvResult ==
    [status |-> "NONE", received |-> 0, id |-> 0, len |-> 0, buffer_len |-> 0, closing |-> FALSE]

NoSendResult ==
    [status |-> "NONE", allocated |-> FALSE, handed |-> FALSE, bound |-> FALSE, link |-> FALSE,
     len |-> 0, alloc_ok |-> FALSE, send_ok |-> FALSE]

NoSockObs ==
    [enq |-> << >>,       \* the datagrams enqueued since the slot was created
     ret |-> << >>,       \* the datagrams udp_socket_recv returned since then
     last |-> [type |-> "none"]]   \* what the last dispatch did

\* udp_socket_init: memset(socket_pool, 0, sizeof(socket_pool))
SlotFree ==
    /\ flags = {}
    /\ rx_queue = NoQueue
    /\ rx_pool = NoPool
    /\ rx_dropped = 0

\* a slot udp_socket_create returned UDP_STATUS_OK for
SlotBound ==
    /\ flags = {SOCKET_FLAG_USED, SOCKET_FLAG_BOUND}
    /\ rx_queue = [null |-> FALSE, msgs |-> << >>]
    /\ rx_pool = [null |-> FALSE, used |-> 0]
    /\ rx_dropped = 0

SockThreadsIdle ==
    /\ recv_pc = "idle"
    /\ recv_loc = RecvIdleLocals
    /\ recv_res = NoRecvResult
    /\ close_pc = "idle"
    /\ send_res = NoSendResult
    /\ sk_obs = NoSockObs
    /\ n_arrived = 0
    /\ n_sock = 0

SocketIdle == SlotFree /\ SockThreadsIdle


(***************************************************************************)
(* adc.c: the driver's variables and the converter                         *)
(***************************************************************************)
\* the converter: converting is a conversion in flight and gen the call of
\* adc_start_conversion that started it; pending is a completion the NVIC holds
\* back while the interrupt is disabled
AdcHwIdle == [converting |-> FALSE, pending |-> FALSE, gen |-> 0]

AdcIdleLocals == [op |-> "none", spin |-> 0]

NoAdcResult ==
    [op |-> "none", status |-> "NONE", wrote |-> FALSE, value |-> 0,
     init |-> FALSE,      \* adc_initialized when the call was made
     fresh |-> FALSE,     \* ADC_IRQHandler had run since adc_done was cleared last
     latest |-> FALSE]    \* and it was the completion of the conversion started last

NoAdcObs ==
    [started |-> 0,       \* calls of adc_start_conversion that started a conversion
     done_gen |-> 0,      \* the conversion whose completion set adc_done last
     irq_since |-> FALSE, \* ADC_IRQHandler ran since adc_done was cleared last
     aborted |-> FALSE]   \* adc_deinit powered the converter down under a conversion

\* the state acquisition_init leaves: adc_init(TASK_ACQUISITION_DEFAULT_CHANNEL)
AdcIdle ==
    /\ adc_last_value = 0
    /\ adc_done = 0
    /\ adc_initialized = 1
    /\ adc_current_channel = TASK_ACQUISITION_DEFAULT_CHANNEL
    /\ adc_hw = AdcHwIdle
    /\ adc_pc = "idle"
    /\ adc_loc = AdcIdleLocals
    /\ adc_res = NoAdcResult
    /\ adc_obs = NoAdcObs
    /\ n_adc = 0
    /\ n_chan = 0


\* the number of sockets of the stack and of slots of the pool
UDP_NUM_SOCKS == 2

SOCKET_FLAG_CALLBACK == "CALLBACK"

SlotIds == 1 .. UDP_NUM_SOCKS

PoolThreads == {"app", "stack"}

\* a slot after memset(sock, 0, sizeof(udp_socket_internal_t))
ZeroSlot == [flags |-> {}, net_socket |-> 0, rx_pool |-> FALSE, rx_queue |-> FALSE]

NoPoolCall == [pc |-> "idle", op |-> "none", arg |-> 0]

NoPoolObs ==
    [live |-> << >>,            \* the handles udp_socket_create returned, not closed since
     res |-> [op |-> "none"],   \* the call that returned last, the pool before and after it
     n |-> 0]                   \* calls made so far

\* the state udp_socket_init leaves
PoolIdle ==
    /\ socket_pool = [i \in SlotIds |-> ZeroSlot]
    /\ socket_mutex = "none"
    /\ net_stack = {}
    /\ pl_call = [t \in PoolThreads |-> NoPoolCall]
    /\ pl_obs = NoPoolObs

\* no notification is being processed, udp_socket_is_link_up is not being called
NoLinkCall ==
    [pc |-> "idle", known |-> FALSE, returned |-> FALSE, res |-> FALSE,
     ok |-> {},          \* what the notifications and the address allowed the call to return
     last |-> "none",    \* the event of the notification processed last
     n |-> 0]            \* calls made so far

EthIdle == eth_pc = "idle" /\ lk_call = NoLinkCall

\* the state the init task leaves: both modules initialised, both tasks created
TasksBooted ==
    /\ acq_state = "IDLE"
    /\ current_channel = TASK_ACQUISITION_DEFAULT_CHANNEL
    /\ threshold_mv = TASK_ACQUISITION_DEFAULT_THRESHOLD_MV
    /\ batch_size = ACQUISITION_DEFAULT_BATCH_SIZE
    /\ sample_buffer = << >>
    /\ sample_index = 0
    /\ acq_stats = NoAcqStats
    /\ acq_pc = "top"
    /\ acq_loc = AcqIdleLocals
    /\ net_state = "INIT"
    /\ net_pc = "start"
    /\ net_loc = NetIdleLocals
    /\ remote_target = NoEndpoint
    /\ target_set_by_start = FALSE
    /\ net_stats = [packets_sent |-> 0, errors |-> 0]
    /\ s_eth_link_known = FALSE
    /\ s_eth_link_up = FALSE
    /\ ip_assigned = FALSE
    /\ wire = NoWire
    /\ obs = NoObs
    /\ n_reads = 0
    /\ n_dgrams = 0
    /\ n_link = 0

(***************************************************************************)
(* SpecCodec: the codec's functions called one at a time.                  *)
(* The arguments are drawn from the sets below; the sequence counter       *)
(* starts anywhere a running system can have brought it.                   *)
(***************************************************************************)
MaxCalls == 2

SeqStarts == {0, 255, 65535}

\* which pointer argument of a builder is NULL
NullArgs == {"none", "buffer", "arg", "out"}

HeaderBufLens == {0, 6, 7, 1500}

StatusBufLens == {18, 19, 1500}

SampleCounts == {0, 1, 3, 250, 251, 500, 700}

\* capacities around the size of a packet of n samples, and the two buffers of
\* the program (tx_buffer of task_acquisition.c, tx_buffer of task_network.c)
DataBufLens(n) == {10 + 2 * n, 11 + 2 * n, 512, 1500}

\* n samples of 12 bits, different from one another
SamplePattern(k, n) == [i \in 1..n |-> (k + 257 * i) % 4096]

StatusInputs ==
    { [acquiring |-> 1, channel |-> 7, threshold_mv |-> 3300, uptime |-> 70000,
       samples_sent |-> 16909060],
      [acquiring |-> 0, channel |-> 0, threshold_mv |-> 1650, uptime |-> 0,
       samples_sent |-> 258] }

\* datagrams handed to the parser: a header with the given fields followed by
\* body bytes, len bytes in all
RawDatagram(magic, type, seq, plen, len) ==
    LET full == LE16(magic) \o << type >> \o LE16(seq) \o LE16(plen)
                \o [i \in 1..(len - HEADER_SIZE) |-> (i * 7) % 256]
    IN  SubSeq(full, 1, len)

ParseMagics == {PROTOCOL_MAGIC, 48879, 31450}     \* 0xDA7A, 0xBEEF, 0x7ADA

ParsePayloadLens == {0, 1, 4, 5, 65535}

ParseLens == {0, 6, 7, 8, 11, 12, 20}

NoParse == [status |-> "NONE"]

\* the parser's result together with the bytes its view denotes
Parsed(data, len) ==
    LET r == protocol_parse_packet(data, len) IN
    IF r.status = "OK"
    THEN [status |-> "OK", header |-> r.header, payload |-> r.payload,
          payload_len |-> r.payload_len,
          view |-> PayloadView(data, r.payload, r.payload_len)]
    ELSE [status |-> r.status]

\* the record of a call: what was asked, and the state it was asked in
CallRecord(op, args) ==
    [op |-> op, args |-> args, seq_before |-> sequence_counter,
     out_len_before |-> c_out_len]

Returned(r) ==
    /\ c_res' = [status |-> r.status, wrote |-> r.buffer # c_buf]
    /\ c_buf' = r.buffer
    /\ c_out_len' = r.out_len
    /\ sequence_counter' = r.seq
    /\ c_parse' = NoParse
    /\ c_n' = c_n + 1

CallBuildPing ==
    /\ UNCHANGED << task_vars, sock_vars, adc_vars, eth_vars, pool_vars >>
    /\ c_n < MaxCalls
    /\ \E null \in NullArgs \ {"arg"}, buffer_len \in HeaderBufLens :
        /\ null # "none" => buffer_len = 1500
        /\ c_call' = CallRecord("ping", [null |-> null, buffer_len |-> buffer_len])
        /\ Returned(protocol_build_ping(null = "buffer", c_buf, buffer_len, null = "out",
                                        c_out_len, sequence_counter))

CallBuildPong ==
    /\ UNCHANGED << task_vars, sock_vars, adc_vars, eth_vars, pool_vars >>
    /\ c_n < MaxCalls
    /\ \E null \in NullArgs \ {"arg"}, buffer_len \in HeaderBufLens :
        /\ null # "none" => buffer_len = 1500
        /\ c_call' = CallRecord("pong", [null |-> null, buffer_len |-> buffer_len])
        /\ Returned(protocol_build_pong(null = "buffer", c_buf, buffer_len, null = "out",
                                        c_out_len, sequence_counter))

CallBuildStatus ==
    /\ UNCHANGED << task_vars, sock_vars, adc_vars, eth_vars, pool_vars >>
    /\ c_n < MaxCalls
    /\ \E null \in NullArgs, buffer_len \in StatusBufLens, status \in StatusInputs :
        /\ null # "none" => (buffer_len = 1500 /\ status.acquiring = 1)
        /\ c_call' = CallRecord("status", [null |-> null, buffer_len |-> buffer_len,
                                           status |-> status])
        /\ Returned(protocol_build_status(null = "buffer", c_buf, buffer_len, null = "arg",
                                          status, null = "out", c_out_len,
                                          sequence_counter))

CallBuildData ==
    /\ UNCHANGED << task_vars, sock_vars, adc_vars, eth_vars, pool_vars >>
    /\ c_n < MaxCalls
    /\ \E null \in NullArgs, sample_count \in SampleCounts :
       \E buffer_len \in DataBufLens(sample_count) :
        LET channel == sample_count % 8
            samples == SamplePattern(channel, sample_count)
        IN
        /\ null # "none" => (buffer_len = 1500 /\ sample_count = 3)
        /\ c_call' = CallRecord("data", [null |-> null, buffer_len |-> buffer_len,
                                         channel |-> channel, samples |-> samples,
                                         sample_count |-> sample_count])
        /\ Returned(protocol_build_data_packet(null = "buffer", c_buf, buffer_len, channel,
                                               null = "arg", samples, sample_count,
                                               null = "out", c_out_len, sequence_counter))

\* parse(data = the buffer just built, len = the length the builder reported)
CallParseBuilt ==
    /\ UNCHANGED << task_vars, sock_vars, adc_vars, eth_vars, pool_vars >>
    /\ c_call.op \in {"ping", "pong", "status", "data"}
    /\ c_res.status = "OK"
    /\ c_parse = NoParse
    /\ c_parse' = Parsed(c_buf, c_out_len)
    /\ UNCHANGED << sequence_counter, c_call, c_res, c_buf, c_out_len, c_n >>

\* parse(data, len) of a datagram from the network
CallParse ==
    /\ UNCHANGED << task_vars, sock_vars, adc_vars, eth_vars, pool_vars >>
    /\ c_n < MaxCalls
    /\ \E magic \in ParseMagics, plen \in ParsePayloadLens, len \in ParseLens :
        /\ magic # PROTOCOL_MAGIC => (plen = 4 /\ len \in {7, 11})
        /\ len < HEADER_SIZE => plen = 0
        /\ LET data == RawDatagram(magic, MSG_TYPE_CMD, 513, plen, len) IN
           /\ c_call' = CallRecord("parse", [magic |-> magic, plen |-> plen, len |-> len,
                                              data |-> data])
           /\ c_res' = [status |-> Parsed(data, len).status, wrote |-> FALSE]
           /\ c_parse' = Parsed(data, len)
    /\ c_n' = c_n + 1
    /\ UNCHANGED << sequence_counter, c_buf, c_out_len >>

\* the caller's buffer and out_len hold whatever an earlier use left in them
CodecIdle ==
    /\ c_call = [op |-> "none"]
    /\ c_res = [status |-> "NONE", wrote |-> FALSE]
    /\ c_buf \in { << >>, [i \in 1..24 |-> 238] }
    /\ c_out_len \in {0, 24}
    /\ c_parse = NoParse
    /\ c_n = 0

InitCodec ==
    /\ sequence_counter \in SeqStarts
    /\ CodecIdle
    /\ SocketIdle
    /\ AdcIdle
    /\ EthIdle
    /\ PoolIdle
    /\ TasksBooted

CodecNext ==
    \/ CallBuildPing
    \/ CallBuildPong
    \/ CallBuildStatus
    \/ CallBuildData
    \/ CallParseBuilt
    \/ CallParse


SpecCodec == InitCodec /\ [][CodecNext]_vars

(***************************************************************************)
(* Bounds and inputs of the task model                                     *)
(***************************************************************************)
MaxReads == 2

MaxDatagrams == 3

MaxLinkEvents == 2

\* link notifications in the specifications that are not about the link
MaxLinkChanges == 1

\* readings of the converter: below, at and above mv_to_adc(1650) = 2047
AdcValues == {100, 2047, 4095}

\* the hosts that send datagrams
Endpoints ==
    {[ip |-> << 192, 168, 0, 10 >>, port |-> 50000],
     [ip |-> << 192, 168, 0, 20 >>, port |-> 50001]}

\* a datagram as a host builds it
HostPacket(type, payload) ==
    LE16(PROTOCOL_MAGIC) \o << type >> \o LE16(0) \o LE16(Len(payload)) \o payload

HostCommand(cmd, param_type, param) ==
    HostPacket(MSG_TYPE_CMD, << cmd, param_type >> \o LE16(param))

(***************************************************************************)
(* acquisition_task (priority BelowNormal).  The network task and the      *)
(* Ethernet notification preempt it between any two instructions, so each  *)
(* access to a variable both tasks touch is a step of its own.  A local    *)
(* that is no longer live is put back to its idle value.                   *)
(***************************************************************************)
acq_shared == << acq_state, current_channel, threshold_mv, batch_size >>

net_task_vars == << net_state, net_pc, net_loc, remote_target, target_set_by_start >>

link_vars == << s_eth_link_known, s_eth_link_up, ip_assigned >>

AcqContinue == acq_pc' = "top" /\ acq_loc' = AcqIdleLocals

\* (mutation of AcqCheckState: the state is not looked at)
AcqCheckState_Always ==
    /\ acq_pc = "top"
    /\ acq_pc' = "chknet"
    /\ UNCHANGED << sequence_counter, harness_vars, acq_stats, acq_shared, sample_buffer,
                    sample_index, acq_loc, net_task_vars, net_stats, link_vars, wire, obs,
                    n_reads, n_dgrams, n_link >>

\* if (current_state != ACQ_STATE_RUNNING) { osDelay(100); continue; }
AcqCheckState ==
    /\ acq_pc = "top"
    /\ acq_state = "RUNNING"
    /\ acq_pc' = "chknet"
    /\ UNCHANGED << sequence_counter, harness_vars, acq_stats, acq_shared, sample_buffer, sample_index,
                    acq_loc, net_task_vars, net_stats, link_vars, wire, obs, n_reads,
                    n_dgrams, n_link >>

\* if (!network_is_ready()) { osDelay(100); continue; }
AcqCheckNetwork ==
    /\ acq_pc = "chknet"
    /\ acq_pc' = IF network_is_ready THEN "read" ELSE "top"
    /\ UNCHANGED << sequence_counter, harness_vars, acq_stats, acq_shared, sample_buffer, sample_index,
                    acq_loc, net_task_vars, net_stats, link_vars, wire, obs, n_reads,
                    n_dgrams, n_link >>

\* adc_read_sync(&adc_value) of the initialised converter
AcqRead(values) ==
    /\ acq_pc = "read"
    /\ n_reads < MaxReads
    /\ \E v \in values :
          acq_loc' = [acq_loc EXCEPT !.adc_value = v, !.adc_channel = current_channel,
                                     !.epoch = obs.epoch]
    /\ acq_pc' = "gate"
    /\ n_reads' = n_reads + 1
    /\ obs' = [obs EXCEPT !.stop.reads = IF obs.stop.on THEN @ + 1 ELSE @]
    /\ UNCHANGED << sequence_counter, harness_vars, acq_stats, acq_shared, sample_buffer, sample_index,
                    net_task_vars, net_stats, link_vars, wire, n_dgrams, n_link >>

\* threshold_adc = mv_to_adc(threshold_mv); if (adc_value >= threshold_adc)
AcqGate ==
    /\ acq_pc = "gate"
    /\ IF Qualifies(acq_loc.adc_value, mv_to_adc(threshold_mv))
       THEN /\ acq_pc' = "store"
            /\ acq_loc' = [acq_loc EXCEPT !.threshold_adc = mv_to_adc(threshold_mv)]
            /\ obs' = [obs EXCEPT !.taken = Append(obs.taken, acq_loc.adc_value),
                                  !.unsent = Append(obs.unsent, acq_loc.adc_value)]
       ELSE AcqContinue /\ obs' = obs
    /\ UNCHANGED << sequence_counter, harness_vars, acq_stats, acq_shared, sample_buffer, sample_index,
                    net_task_vars, net_stats, link_vars, wire, n_reads, n_dgrams, n_link >>

\* sample_buffer[sample_index++] = adc_value: the load of sample_index and the store
\* into the array
AcqStore ==
    /\ acq_pc = "store"
    /\ sample_buffer' = BufferWrite(sample_buffer, sample_index, acq_loc.adc_value)
    /\ obs' = [obs EXCEPT
                 !.gate = BufferWrite(obs.gate, sample_index, acq_loc.threshold_adc),
                 !.chan = BufferWrite(obs.chan, sample_index, acq_loc.adc_channel),
                 !.epochs = BufferWrite(obs.epochs, sample_index, acq_loc.epoch),
                 !.stop.stored = IF obs.stop.on THEN @ + 1 ELSE @]
    /\ acq_loc' = [acq_loc EXCEPT !.idx = sample_index, !.threshold_adc = 0]
    /\ acq_pc' = "inc"
    /\ UNCHANGED << sequence_counter, harness_vars, acq_stats, acq_shared, sample_index, net_task_vars,
                    net_stats, link_vars, wire, n_reads, n_dgrams, n_link >>

\* ... and the store of the incremented value; stats.samples_collected++
AcqIncrement ==
    /\ acq_pc = "inc"
    /\ sample_index' = (acq_loc.idx + 1) % U16
    /\ acq_stats' = [acq_stats EXCEPT !.samples_collected = @ + 1]
    /\ acq_pc' = "full"
    /\ UNCHANGED << sequence_counter, harness_vars, acq_shared, sample_buffer, acq_loc,
                    net_task_vars, net_stats, link_vars, wire, obs, n_reads, n_dgrams,
                    n_link >>

\* (mutation of BatchComplete: the batch is complete once the index is above
\* the batch size)
BatchComplete_Above(index, size) == index > size

\* sample_index >= batch_size
BatchComplete(index, size) == index >= size

\* if (sample_index >= batch_size): sample_index is not volatile, the compiler
\* compares the value it just stored or loads it again; batch_size is loaded
AcqBatchFull ==
    /\ acq_pc = "full"
    /\ \E i \in {(acq_loc.idx + 1) % U16, sample_index} :
          IF BatchComplete(i, batch_size)
          THEN /\ acq_pc' = "build"
               /\ acq_loc' = [acq_loc EXCEPT !.cmp = i]
               /\ obs' = [obs EXCEPT !.batch_done = batch_size]
          ELSE AcqContinue /\ obs' = obs
    /\ UNCHANGED << sequence_counter, harness_vars, acq_stats, acq_shared, sample_buffer, sample_index,
                    net_task_vars, net_stats, link_vars, wire, n_reads, n_dgrams, n_link >>

\* the arguments of protocol_build_data_packet(tx_buffer, sizeof(tx_buffer),
\* current_channel, sample_buffer, sample_index, &packet_len), its checks, and the
\* load of sequence_counter in build_header
AcqBuildData(count) ==
    protocol_build_data_packet(FALSE, acq_loc.tx, ACQ_TX_BUFFER_SIZE, current_channel, FALSE, BufferPrefix(sample_buffer, count), count, FALSE, acq_loc.packet_len, sequence_counter)

AcqBuild ==
    /\ acq_pc = "build"
    /\ \E count \in {acq_loc.cmp, sample_index} :
          IF AcqBuildData(count).status = "OK"
          THEN /\ acq_pc' = "hdr"
               /\ acq_loc' = [acq_loc EXCEPT !.count = count, !.channel = current_channel,
                                             !.seq = sequence_counter]
          ELSE /\ acq_pc' = "reset"
               /\ acq_loc' = [acq_loc EXCEPT !.outcome = "build_failed"]
    /\ UNCHANGED << sequence_counter, harness_vars, acq_stats, acq_shared, sample_buffer, sample_index,
                    net_task_vars, net_stats, link_vars, wire, obs, n_reads, n_dgrams,
                    n_link >>

\* header->sequence = sequence_counter++: the store of the incremented value; the
\* rest of the packet
AcqBuilt ==
    protocol_build_data_packet(FALSE, acq_loc.tx, ACQ_TX_BUFFER_SIZE, acq_loc.channel, FALSE, BufferPrefix(sample_buffer, acq_loc.count), acq_loc.count, FALSE, acq_loc.packet_len, acq_loc.seq)

AcqBuildHeader ==
    /\ acq_pc = "hdr"
    /\ sequence_counter' = AcqBuilt.seq
    /\ acq_loc' = [acq_loc EXCEPT !.tx = AcqBuilt.buffer, !.packet_len = AcqBuilt.out_len]
    /\ obs' = [obs EXCEPT
                 !.seqs = Append(obs.seqs, RD16(AcqBuilt.buffer, 3)),
                 !.built = [type |-> "DATA", sample_count |-> acq_loc.count,
                            batch_size |-> batch_size, batch_done |-> obs.batch_done,
                            threshold_mv |-> threshold_mv,
                            gate |-> BufferPrefix(obs.gate, acq_loc.count),
                            chan |-> BufferPrefix(obs.chan, acq_loc.count),
                            epochs |-> BufferPrefix(obs.epochs, acq_loc.count)]]
    /\ acq_pc' = "send"
    /\ UNCHANGED << harness_vars, acq_stats, acq_shared, sample_buffer, sample_index, net_task_vars,
                    net_stats, link_vars, wire, n_reads, n_dgrams, n_link >>

\* network_send_raw: if (!network_is_ready()) return -1;
AcqSendRaw ==
    /\ acq_pc = "send"
    /\ acq_pc' = IF network_is_ready THEN "udp" ELSE "reset"
    /\ acq_loc' = [acq_loc EXCEPT !.outcome = IF network_is_ready THEN @ ELSE "send_failed"]
    /\ UNCHANGED << sequence_counter, harness_vars, acq_stats, acq_shared, sample_buffer, sample_index,
                    net_task_vars, net_stats, link_vars, wire, obs, n_reads,
                    n_dgrams, n_link >>

\* udp_socket_send(udp_socket, &remote_target, data, len) into endpoint_to_net_addr:
\* the length, the link, addr->port = endpoint->port
AcqUdpSend ==
    /\ acq_pc = "udp"
    /\ IF acq_loc.packet_len <= UDP_MAX_PAYLOAD_SIZE /\ udp_socket_is_link_up
       THEN /\ acq_pc' = "xmit"
            /\ acq_loc' = [acq_loc EXCEPT !.dest = [ip |-> NoEndpoint.ip,
                                                    port |-> remote_target.port]]
            /\ net_stats' = net_stats
       ELSE /\ acq_pc' = "reset"
            /\ acq_loc' = [acq_loc EXCEPT !.outcome = "send_failed"]
            /\ net_stats' = [net_stats EXCEPT !.errors = net_stats.errors + 1]
    /\ UNCHANGED << sequence_counter, harness_vars, acq_stats, acq_shared, sample_buffer, sample_index,
                    net_task_vars, link_vars, wire, obs, n_reads, n_dgrams, n_link >>

\* memcpy(addr->addr, endpoint->ip.addr, 4), netUDP_GetBuffer, memcpy, netUDP_Send:
\* the stack takes the datagram or refuses
AcqTransmit ==
    /\ acq_pc = "xmit"
    /\ LET addr == [ip |-> remote_target.ip, port |-> acq_loc.dest.port] IN
       \E status \in {"OK", "NO_MEMORY", "NET_ERROR"} :
          IF status = "OK"
          THEN /\ wire' = [by |-> "acquisition", dest |-> addr,
                           bytes |-> SubSeq(acq_loc.tx, 1, acq_loc.packet_len)]
               /\ obs' = [obs EXCEPT !.data = [type |-> "DATA", packet |-> obs.built,
                                                net_state |-> net_state,
                                                unsent |-> obs.unsent,
                                                epoch |-> obs.epoch],
                                     !.unsent = << >>,
                                     !.stop.sent = IF obs.stop.on THEN @ + 1 ELSE @]
               /\ acq_pc' = "count"
               /\ acq_loc' = [acq_loc EXCEPT !.sent = net_stats.packets_sent, !.dest = addr]
               /\ net_stats' = net_stats
          ELSE /\ wire' = wire
               /\ obs' = obs
               /\ acq_pc' = "reset"
               /\ acq_loc' = [acq_loc EXCEPT !.dest = addr, !.outcome = "send_failed"]
               /\ net_stats' = [net_stats EXCEPT !.errors = net_stats.errors + 1]
    /\ UNCHANGED << sequence_counter, harness_vars, acq_stats, acq_shared, sample_buffer, sample_index,
                    net_task_vars, link_vars, n_reads, n_dgrams, n_link >>

\* stats.packets_sent++ of network_send_raw: the store of the value loaded before
AcqCountSent ==
    /\ acq_pc = "count"
    /\ net_stats' = [net_stats EXCEPT !.packets_sent = acq_loc.sent + 1]
    /\ acq_pc' = "reset"
    /\ acq_loc' = [acq_loc EXCEPT !.outcome = "sent"]
    /\ UNCHANGED << sequence_counter, harness_vars, acq_stats, acq_shared, sample_buffer, sample_index,
                    net_task_vars, link_vars, wire, obs, n_reads, n_dgrams,
                    n_link >>

\* (mutation of AcqCount: a failed batch is counted as sent too)
AcqCount_Both(stats, outcome) ==
    [stats EXCEPT !.packets_sent = @ + 1,
                  !.errors = IF outcome = "sent" THEN @ ELSE @ + 1]

\* the three branches after protocol_build_data_packet and network_send_raw:
\* stats.packets_sent++ or stats.errors++
AcqCount(stats, outcome) ==
    IF outcome = "sent"
    THEN [stats EXCEPT !.packets_sent = @ + 1]
    ELSE [stats EXCEPT !.errors = @ + 1]

\* the counter of the outcome, sample_index = 0, osDelay(ACQUISITION_LOOP_DELAY_MS)
AcqReset ==
    /\ acq_pc = "reset"
    /\ acq_stats' = AcqCount(acq_stats, acq_loc.outcome)
    /\ sample_index' = 0
    /\ AcqContinue
    /\ wire' = IF wire.by = "acquisition" THEN NoWire ELSE wire
    /\ obs' = [obs EXCEPT !.batch_done = 0, !.built = NoObs.built, !.data = NoObs.data,
                          !.taken = << >>]
    /\ UNCHANGED << sequence_counter, harness_vars, acq_shared, sample_buffer, net_task_vars,
                    net_stats, link_vars, n_reads, n_dgrams, n_link >>

(***************************************************************************)
(* The functions of task_acquisition.c and protocol.c that handle_command  *)
(* calls, on the record s of the variables a handler reads and writes.     *)
(* The network task (priority Normal) is not preempted by the acquisition  *)
(* task: what it does between two blocking calls is one step.              *)
(***************************************************************************)
Shared ==
    [acq_state |-> acq_state, current_channel |-> current_channel,
     threshold_mv |-> threshold_mv, batch_size |-> batch_size,
     sample_index |-> sample_index, sequence_counter |-> sequence_counter,
     remote_target |-> remote_target, target_set_by_start |-> target_set_by_start,
     net_stats |-> net_stats, wire |-> wire, seqs |-> obs.seqs, submitted |-> FALSE,
     rc |-> 0]

acquisition_start(s) ==
    IF s.acq_state = "RUNNING"
    THEN s
    ELSE [s EXCEPT !.sample_index = 0, !.acq_state = "RUNNING"]

\* (mutation of acquisition_stop: the state is left as it is)
acquisition_stop_Keep(s) == s

acquisition_stop(s) == [s EXCEPT !.acq_state = "IDLE"]

acquisition_set_threshold_mv(s, mv) ==
    IF mv > ADC_VREF_MV THEN [s EXCEPT !.rc = -1] ELSE [s EXCEPT !.threshold_mv = mv]

acquisition_set_threshold_percent(s, percent) ==
    IF percent > 100
    THEN [s EXCEPT !.rc = -1]
    ELSE [s EXCEPT !.threshold_mv = percent_to_mv(percent)]

\* (mutation of adc_init: the converter cannot be initialised)
adc_init_Fails(channel) == "ADC_ERROR_PARAM"

\* adc_init(channel) after adc_deinit(): adc_initialized is 0
adc_init(channel) ==
    IF channel >= ADC_CHANNEL_MAX THEN "ADC_ERROR_PARAM" ELSE "ADC_OK"

acquisition_set_channel(s, channel) ==
    IF channel >= ADC_CHANNEL_MAX
    THEN [s EXCEPT !.rc = -1]
    ELSE IF s.current_channel # channel /\ adc_init(channel) # "ADC_OK"
         THEN [s EXCEPT !.acq_state = "ERROR", !.rc = -1]
         ELSE [s EXCEPT !.current_channel = channel]

\* (mutation of acquisition_set_batch_size: no upper limit)
acquisition_set_batch_size_NoMax(s, size) ==
    IF size = 0
    THEN [s EXCEPT !.rc = -1]
    ELSE [s EXCEPT !.batch_size = size, !.sample_index = 0]

acquisition_set_batch_size(s, size) ==
    IF size = 0 \/ size > ACQUISITION_MAX_BATCH_SIZE
    THEN [s EXCEPT !.rc = -1]
    ELSE [s EXCEPT !.batch_size = size, !.sample_index = 0]

protocol_reset_sequence(s) == [s EXCEPT !.sequence_counter = 0, !.seqs = << >>]

\* (mutation of ReplyDest: the reply goes to the transmit target)
ReplyDest_Target(s, remote) == s.remote_target

\* the endpoint handed to udp_socket_send for a reply: remote, the sender
ReplyDest(s, remote) == remote

\* udp_socket_send(udp_socket, remote, tx_buffer, len) by the network task, whose
\* result the callers drop, then stats.packets_sent++
NetReply(s, r, remote, stack_ok) ==
    IF r.status # "OK" \/ r.out_len = 0
    THEN s
    ELSE [s EXCEPT
            !.sequence_counter = r.seq,
            !.seqs = Append(s.seqs, RD16(r.buffer, 3)),
            !.submitted = TRUE,
            !.wire = IF r.out_len <= UDP_MAX_PAYLOAD_SIZE /\ udp_socket_is_link_up /\ stack_ok
                     THEN [by |-> "network", dest |-> ReplyDest(s, remote),
                           bytes |-> SubSeq(r.buffer, 1, r.out_len)]
                     ELSE s.wire,
            !.net_stats = [s.net_stats EXCEPT !.packets_sent = s.net_stats.packets_sent + 1]]

\* case CMD_GET_STATUS (uptime is 0 in the model)
StatusPayload(s) ==
    [acquiring |-> IF s.acq_state = "RUNNING" THEN 1 ELSE 0,
     channel |-> s.current_channel, threshold_mv |-> s.threshold_mv, uptime |-> 0,
     samples_sent |-> s.net_stats.packets_sent]

GetStatus(s, remote, stack_ok) ==
    NetReply(s, protocol_build_status(FALSE, << >>, PACKET_BUFFER_SIZE, FALSE, StatusPayload(s), FALSE, 0, s.sequence_counter), remote, stack_ok)

\* case CMD_CONFIGURE
Configure(s, cmd) ==
    CASE cmd.param_type = CONFIG_THRESHOLD_PERCENT ->
            acquisition_set_threshold_percent(s, cmd.param % 256)
      [] cmd.param_type = CONFIG_THRESHOLD_MV -> acquisition_set_threshold_mv(s, cmd.param)
      [] cmd.param_type = CONFIG_BATCH_SIZE -> acquisition_set_batch_size(s, cmd.param)
      [] cmd.param_type = CONFIG_CHANNEL -> acquisition_set_channel(s, cmd.param)
      [] cmd.param_type = CONFIG_RESET_SEQUENCE -> protocol_reset_sequence(s)
      [] OTHER -> s

\* (mutation of handle_command: a command code that is not known stops the acquisition)
handle_command_UnknownStops(s, cmd, remote, stack_ok) ==
    CASE cmd.cmd = CMD_GET_STATUS -> GetStatus(s, remote, stack_ok)
      [] cmd.cmd = CMD_START_ACQ ->
            [s EXCEPT !.remote_target = remote, !.target_set_by_start = TRUE]
      [] cmd.cmd = CMD_CONFIGURE -> Configure(s, cmd)
      [] OTHER -> acquisition_stop(s)

\* handle_command up to its first blocking call after a write
handle_command(s, cmd, remote, stack_ok) ==
    CASE cmd.cmd = CMD_GET_STATUS -> GetStatus(s, remote, stack_ok)
      [] cmd.cmd = CMD_START_ACQ ->
            [s EXCEPT !.remote_target = remote, !.target_set_by_start = TRUE]
      [] cmd.cmd = CMD_STOP_ACQ -> acquisition_stop(s)
      [] cmd.cmd = CMD_CONFIGURE -> Configure(s, cmd)
      [] OTHER -> s

\* process_received_packet
process_received_packet(s, data, remote, stack_ok) ==
    LET p == protocol_parse_packet(data, Len(data))
        c == protocol_parse_command(p.payload = NULL, PayloadView(data, p.payload, p.payload_len), p.payload_len)
    IN  IF p.status # "OK"
        THEN s
        ELSE CASE p.header.msg_type = MSG_TYPE_PING ->
                    NetReply(s, protocol_build_pong(FALSE, << >>, PACKET_BUFFER_SIZE, FALSE, 0, s.sequence_counter), remote, stack_ok)
               [] p.header.msg_type = MSG_TYPE_CMD ->
                    IF c.status = "OK" THEN handle_command(s, c.cmd, remote, stack_ok) ELSE s
               [] OTHER -> s

\* the command a datagram carries, 0 if it carries none that handle_command gets
CommandOf(data) ==
    LET p == protocol_parse_packet(data, Len(data))
        c == protocol_parse_command(p.payload = NULL, PayloadView(data, p.payload, p.payload_len), p.payload_len)
    IN  IF p.status = "OK" /\ p.header.msg_type = MSG_TYPE_CMD /\ c.status = "OK"
        THEN c.cmd.cmd
        ELSE 0

(***************************************************************************)
(* network_task                                                            *)
(***************************************************************************)
NetUnchanged ==
    UNCHANGED << sequence_counter, harness_vars, acq_stats, acq_shared, sample_buffer, sample_index,
                 acq_pc, acq_loc, net_loc, remote_target, target_set_by_start, net_stats,
                 link_vars, obs, n_reads, n_dgrams, n_link >>

\* current_state = NET_STATE_WAIT_LINK
NetBegin ==
    /\ net_pc = "start"
    /\ net_state' = "WAIT_LINK"
    /\ net_pc' = "wait_link"
    /\ wire' = wire
    /\ NetUnchanged

\* wait_for_link(30000): the link is seen up, or the 30 s pass with the link down
NetWaitLink ==
    /\ net_pc = "wait_link"
    /\ IF udp_socket_is_link_up
       THEN net_state' = "WAIT_IP" /\ net_pc' = "wait_ip"
       ELSE net_state' = "ERROR" /\ net_pc' = "exit"
    /\ wire' = wire
    /\ NetUnchanged

\* wait_for_ip(IP_WAIT_TIMEOUT)
NetWaitIp ==
    /\ net_pc = "wait_ip"
    /\ IF ip_assigned
       THEN net_state' = net_state /\ net_pc' = "create"
       ELSE net_state' = "ERROR" /\ net_pc' = "exit"
    /\ wire' = wire
    /\ NetUnchanged

\* udp_socket_create(&udp_socket, TASK_NETWORK_LOCAL_PORT)
NetCreate ==
    /\ net_pc = "create"
    /\ \E status \in {"OK", "NET_ERROR"} :
          IF status = "OK"
          THEN net_state' = "READY" /\ net_pc' = "loop"
          ELSE net_state' = "ERROR" /\ net_pc' = "exit"
    /\ wire' = wire
    /\ NetUnchanged

\* while (1) { if (!udp_socket_is_link_up()) { current_state = NET_STATE_WAIT_LINK;
NetLinkCheck ==
    /\ net_pc = "loop"
    /\ IF udp_socket_is_link_up
       THEN net_state' = net_state /\ net_pc' = "recv"
       ELSE net_state' = "WAIT_LINK" /\ net_pc' = "relink"
    /\ wire' = IF wire.by = "network" THEN NoWire ELSE wire
    /\ obs' = [obs EXCEPT !.reply = NoObs.reply]
    /\ UNCHANGED << sequence_counter, harness_vars, acq_stats, acq_shared, sample_buffer, sample_index,
                    acq_pc, acq_loc, net_loc, remote_target, target_set_by_start, net_stats,
                    link_vars, n_reads, n_dgrams, n_link >>

\* (mutation of NetRelink: the state is left at NET_STATE_WAIT_LINK when the link is back)
NetRelink_NoReady ==
    /\ net_pc = "relink"
    /\ IF udp_socket_is_link_up
       THEN net_state' = "WAIT_LINK" /\ net_pc' = "recv"
       ELSE net_state' = "ERROR" /\ net_pc' = "loop"
    /\ wire' = wire
    /\ NetUnchanged

\* if (!wait_for_link(30000)) { current_state = NET_STATE_ERROR; continue; }
\* current_state = NET_STATE_READY;
\* wait_for_link returns true when a poll finds the link up, false when the 30 s are
\* over: the step with the link down is the deadline passing
NetRelink ==
    /\ net_pc = "relink"
    /\ IF udp_socket_is_link_up
       THEN net_state' = "READY" /\ net_pc' = "recv"
       ELSE net_state' = "ERROR" /\ net_pc' = "loop"
    /\ wire' = wire
    /\ NetUnchanged

\* udp_socket_recv(...) returns UDP_STATUS_TIMEOUT; osDelay(1)
NetRecvTimeout ==
    /\ net_pc = "recv"
    /\ net_pc' = "loop"
    /\ UNCHANGED << net_state, wire >>
    /\ NetUnchanged

\* the variables a handler writes take the values of the record s
NetStore(s) ==
    /\ acq_state' = s.acq_state
    /\ current_channel' = s.current_channel
    /\ threshold_mv' = s.threshold_mv
    /\ batch_size' = s.batch_size
    /\ sample_index' = s.sample_index
    /\ sequence_counter' = s.sequence_counter
    /\ remote_target' = s.remote_target
    /\ target_set_by_start' = s.target_set_by_start
    /\ net_stats' = s.net_stats
    /\ wire' = s.wire

\* the command handle_command gets from a datagram, zeros if it gets none
CommandRecord(data) ==
    LET p == protocol_parse_packet(data, Len(data))
        c == protocol_parse_command(p.payload = NULL, PayloadView(data, p.payload, p.payload_len), p.payload_len)
    IN  IF CommandOf(data) # 0 THEN c.cmd ELSE [cmd |-> 0, param_type |-> 0, param |-> 0]

\* the datagram is one of those the protocol has no place for: shorter than a
\* header, not starting with the magic, declaring more payload than it carries, of
\* a type outside message_type_t, a CMD with less than a command record, or a
\* command outside command_type_t
Invalid(data) ==
    \/ Len(data) < HEADER_SIZE
    \/ RD16(data, 0) # PROTOCOL_MAGIC
    \/ Len(data) < HEADER_SIZE + RD16(data, 5)
    \/ data[3] \notin {MSG_TYPE_PING, MSG_TYPE_PONG, MSG_TYPE_DATA, MSG_TYPE_CMD, MSG_TYPE_STATUS}
    \/ data[3] = MSG_TYPE_CMD /\ RD16(data, 5) < CMD_PAYLOAD_SIZE
    \/ /\ data[3] = MSG_TYPE_CMD
       /\ data[HEADER_SIZE + 1] \notin {CMD_START_ACQ, CMD_STOP_ACQ, CMD_GET_STATUS, CMD_CONFIGURE}

\* the datagram is CONFIGURE(reset sequence)
IsResetSequence(data) ==
    /\ CommandOf(data) = CMD_CONFIGURE
    /\ CommandRecord(data).param_type = CONFIG_RESET_SEQUENCE

\* a datagram that is answered
Answered(data) ==
    \/ CommandOf(data) = CMD_GET_STATUS
    \/ protocol_parse_packet(data, Len(data)).status = "OK" /\ data[3] = MSG_TYPE_PING

\* the hosts a datagram comes from: the one host, when the sender is only logged
Senders(data) ==
    IF Answered(data) \/ CommandOf(data) = CMD_START_ACQ
    THEN Endpoints
    ELSE {[ip |-> << 192, 168, 0, 10 >>, port |-> 50000]}

\* udp_socket_recv(...) returns a datagram of the host at remote:
\* process_received_packet(rx_buffer, received, &remote)
NetRecv(datagrams) ==
    /\ net_pc = "recv"
    /\ n_dgrams < MaxDatagrams
    /\ \E data \in datagrams :
       \E remote \in Senders(data) :
       \E stack_ok \in (IF Answered(data) THEN BOOLEAN ELSE {TRUE}) :
          LET s == process_received_packet(Shared, data, remote, stack_ok) IN
          /\ NetStore(s)
          /\ net_pc' = IF CommandOf(data) = CMD_START_ACQ THEN "start_acq" ELSE "loop"
          /\ net_loc' = IF CommandOf(data) = CMD_START_ACQ
                        THEN [remote |-> remote] ELSE net_loc
          /\ obs' = [obs EXCEPT
                       !.seqs = s.seqs,
                       !.reset_last = IsResetSequence(data),
                       !.invalid_last = Invalid(data),
                       !.stop = IF CommandOf(data) = CMD_STOP_ACQ /\ ~obs.stop.on
                                THEN [on |-> TRUE, at |-> acq_pc, reads |-> 0, stored |-> 0,
                                      sent |-> 0]
                                ELSE @,
                       !.first = IF CommandOf(data) = CMD_START_ACQ /\ obs.first = NoEndpoint
                                 THEN remote ELSE obs.first,
                       !.reply = [type |-> "datagram", cmd |-> CommandOf(data),
                                  param_type |-> CommandRecord(data).param_type,
                                  param |-> CommandRecord(data).param,
                                  remote |-> remote, submitted |-> s.submitted,
                                  rc |-> s.rc, after_reset |-> obs.reset_last,
                                  data |-> data, after_invalid |-> obs.invalid_last,
                                  done |-> CommandOf(data) # CMD_START_ACQ]]
    /\ n_dgrams' = n_dgrams + 1
    /\ UNCHANGED << harness_vars, acq_stats, sample_buffer, acq_pc, acq_loc, net_state, link_vars,
                    n_reads, n_link >>

\* case CMD_START_ACQ after LOG_INFO("Acquisition target set to ..."):
\* acquisition_start()
NetStartAcq ==
    /\ net_pc = "start_acq"
    /\ NetStore(acquisition_start(Shared))
    /\ net_pc' = "loop"
    /\ net_loc' = NetIdleLocals
    /\ obs' = [obs EXCEPT !.reply = [obs.reply EXCEPT !.done = TRUE], !.stop = NoObs.stop,
                          !.epoch = IF acq_state # "RUNNING" THEN @ + 1 ELSE @]
    /\ UNCHANGED << harness_vars, acq_stats, sample_buffer, acq_pc, acq_loc, net_state, link_vars,
                    n_reads, n_dgrams, n_link >>

(***************************************************************************)
(* The Ethernet interface                                                  *)
(***************************************************************************)
\* netETH_Notify(if_num, netETH_LinkUp or netETH_LinkDown, val) when the link changes
EthNotify(max_events) ==
    /\ n_link < max_events
    /\ \E up \in BOOLEAN :
          /\ s_eth_link_known => s_eth_link_up # up
          /\ s_eth_link_known' = TRUE
          /\ s_eth_link_up' = up
    /\ n_link' = n_link + 1
    /\ UNCHANGED << sequence_counter, harness_vars, acq_stats, acq_shared, sample_buffer, sample_index,
                    acq_pc, acq_loc, net_task_vars, net_stats, ip_assigned, wire, obs,
                    n_reads, n_dgrams >>

\* the interface gets its address
IpAssigned ==
    /\ ~ip_assigned
    /\ ip_assigned' = TRUE
    /\ UNCHANGED << sequence_counter, harness_vars, acq_stats, acq_shared, sample_buffer, sample_index,
                    acq_pc, acq_loc, net_task_vars, net_stats, s_eth_link_known,
                    s_eth_link_up, wire, obs, n_reads, n_dgrams, n_link >>

(***************************************************************************)
(* The steps of the two tasks while no link notification arrives, and with *)
(* link notifications; values are the converter's readings, datagrams what *)
(* the hosts send.                                                         *)
(***************************************************************************)
SteadyLink(values, datagrams) ==
    \/ AcqCheckState
    \/ AcqCheckNetwork
    \/ AcqRead(values)
    \/ AcqGate
    \/ AcqStore
    \/ AcqIncrement
    \/ AcqBatchFull
    \/ AcqBuild
    \/ AcqBuildHeader
    \/ AcqSendRaw
    \/ AcqUdpSend
    \/ AcqTransmit
    \/ AcqCountSent
    \/ AcqReset
    \/ NetBegin
    \/ NetWaitLink
    \/ NetWaitIp
    \/ NetCreate
    \/ NetLinkCheck
    \/ NetRecvTimeout
    \/ NetRecv(datagrams)
    \/ NetStartAcq
    \/ IpAssigned

ChangingLink(values, datagrams, max_events) ==
    \/ SteadyLink(values, datagrams)
    \/ NetRelink
    \/ EthNotify(max_events)

\* the state after boot
Init ==
    /\ sequence_counter = 0
    /\ CodecIdle
    /\ SocketIdle
    /\ AdcIdle
    /\ EthIdle
    /\ PoolIdle
    /\ c_buf = << >>
    /\ c_out_len = 0
    /\ TasksBooted

(***************************************************************************)
(* SpecBatch: START and CONFIGURE batch size while the loop samples        *)
(***************************************************************************)
BatchDatagrams ==
    {HostCommand(CMD_START_ACQ, 0, 0),
     HostCommand(CMD_CONFIGURE, CONFIG_BATCH_SIZE, 1),
     HostCommand(CMD_CONFIGURE, CONFIG_BATCH_SIZE, 2),
     HostCommand(CMD_CONFIGURE, CONFIG_BATCH_SIZE, 501)}

NextBatch == ChangingLink({4095}, BatchDatagrams, MaxLinkChanges)

SpecBatch == Init /\ [][NextBatch]_vars

(***************************************************************************)
(* SpecThreshold: CONFIGURE threshold, in mV and in percent, while a batch *)
(* of two is collected from readings below 1650 mV, at 1650 mV, at 3300 mV *)
(***************************************************************************)
ThresholdDatagrams ==
    {HostCommand(CMD_START_ACQ, 0, 0),
     HostCommand(CMD_CONFIGURE, CONFIG_BATCH_SIZE, 2),
     HostCommand(CMD_CONFIGURE, CONFIG_THRESHOLD_MV, 3300),
     HostCommand(CMD_CONFIGURE, CONFIG_THRESHOLD_PERCENT, 50)}

NextThreshold == ChangingLink({100, 2047, 4095}, ThresholdDatagrams, MaxLinkChanges)

SpecThreshold == Init /\ [][NextThreshold]_vars

(***************************************************************************)
(* SpecLink: the link going down and up while batches of one are sent      *)
(***************************************************************************)
LinkDatagrams ==
    {HostCommand(CMD_START_ACQ, 0, 0),
     HostCommand(CMD_CONFIGURE, CONFIG_BATCH_SIZE, 1)}

NextLink == ChangingLink({4095}, LinkDatagrams, MaxLinkEvents)

SpecLink == Init /\ [][NextLink]_vars

\* SpecLinkFair: SpecLink with the network task scheduled: it has the higher
\* priority, wait_for_link polls every 500 ms, udp_socket_recv returns after 100 ms
SpecLinkFair ==
    /\ SpecLink
    /\ WF_vars(NetLinkCheck)
    /\ WF_vars(NetRelink)
    /\ WF_vars(NetRecvTimeout)

(***************************************************************************)
(* SpecSequence: Pong and Status built while batches of one are built, and *)
(* no CONFIGURE reset sequence                                             *)
(***************************************************************************)
SequenceDatagrams ==
    {HostCommand(CMD_START_ACQ, 0, 0),
     HostCommand(CMD_CONFIGURE, CONFIG_BATCH_SIZE, 1),
     HostPacket(MSG_TYPE_PING, << >>),
     HostCommand(CMD_GET_STATUS, 0, 0)}

NextSequencing == ChangingLink({4095}, SequenceDatagrams, MaxLinkChanges)

SpecSequence == Init /\ [][NextSequencing]_vars

(***************************************************************************)
(* SpecCommands: START, STOP and PING from two hosts, batches of one       *)
(***************************************************************************)
CommandDatagrams ==
    {HostCommand(CMD_START_ACQ, 0, 0),
     HostCommand(CMD_STOP_ACQ, 0, 0),
     HostCommand(CMD_CONFIGURE, CONFIG_BATCH_SIZE, 1),
     HostPacket(MSG_TYPE_PING, << >>)}

NextCommands == ChangingLink({4095}, CommandDatagrams, MaxLinkChanges)

SpecCommands == Init /\ [][NextCommands]_vars

(***************************************************************************)
(* SpecChannel: CONFIGURE channel while a batch of two is collected        *)
(***************************************************************************)
ChannelDatagrams ==
    {HostCommand(CMD_START_ACQ, 0, 0),
     HostCommand(CMD_CONFIGURE, CONFIG_BATCH_SIZE, 2),
     HostCommand(CMD_CONFIGURE, CONFIG_CHANNEL, 1)}

NextChannel == ChangingLink({4095}, ChannelDatagrams, MaxLinkChanges)

SpecChannel == Init /\ [][NextChannel]_vars

(***************************************************************************)
(* SpecConfigure: CONFIGURE with values in and out of range, and START      *)
(***************************************************************************)
ConfigureDatagrams ==
    {HostCommand(CMD_START_ACQ, 0, 0),
     HostCommand(CMD_CONFIGURE, CONFIG_THRESHOLD_MV, ADC_VREF_MV + 1),
     HostCommand(CMD_CONFIGURE, CONFIG_THRESHOLD_PERCENT, 101),
     HostCommand(CMD_CONFIGURE, CONFIG_THRESHOLD_PERCENT, 356),
     HostCommand(CMD_CONFIGURE, CONFIG_BATCH_SIZE, 0),
     HostCommand(CMD_CONFIGURE, CONFIG_BATCH_SIZE, 1),
     HostCommand(CMD_CONFIGURE, CONFIG_BATCH_SIZE, ACQUISITION_MAX_BATCH_SIZE + 1),
     HostCommand(CMD_CONFIGURE, CONFIG_CHANNEL, ADC_CHANNEL_MAX)}

NextConfigure == ChangingLink({4095}, ConfigureDatagrams, MaxLinkChanges)

SpecConfigure == Init /\ [][NextConfigure]_vars

(***************************************************************************)
(* SpecState: START, STOP and CONFIGURE channel, batches of one            *)
(***************************************************************************)
StateDatagrams ==
    {HostCommand(CMD_START_ACQ, 0, 0),
     HostCommand(CMD_STOP_ACQ, 0, 0),
     HostCommand(CMD_CONFIGURE, CONFIG_BATCH_SIZE, 1),
     HostCommand(CMD_CONFIGURE, CONFIG_CHANNEL, 1),
     HostCommand(CMD_CONFIGURE, CONFIG_CHANNEL, ADC_CHANNEL_MAX)}

NextState == ChangingLink({4095}, StateDatagrams, MaxLinkChanges)

SpecState == Init /\ [][NextState]_vars

(***************************************************************************)
(* SpecInvalid: datagrams the protocol has no place for, between START and *)
(* CONFIGURE batch size, batches of one                                    *)
(***************************************************************************)
InvalidDatagrams ==
    {SubSeq(HostCommand(CMD_START_ACQ, 0, 0), 1, HEADER_SIZE - 1),
     LE16(48879) \o << MSG_TYPE_CMD >> \o LE16(0) \o LE16(CMD_PAYLOAD_SIZE) \o << CMD_START_ACQ, 0, 0, 0 >>,
     LE16(PROTOCOL_MAGIC) \o << MSG_TYPE_CMD >> \o LE16(0) \o LE16(CMD_PAYLOAD_SIZE + 1) \o << CMD_START_ACQ, 0, 0, 0 >>,
     HostPacket(MSG_TYPE_CMD, << CMD_STOP_ACQ, 0, 0 >>),
     HostPacket(119, << CMD_START_ACQ, 0, 0, 0 >>),
     HostCommand(9, CONFIG_BATCH_SIZE, 2),
     HostCommand(CMD_START_ACQ, 0, 0),
     HostCommand(CMD_CONFIGURE, CONFIG_BATCH_SIZE, 1)}

NextInvalid == ChangingLink({4095}, InvalidDatagrams, MaxLinkChanges)

SpecInvalid == Init /\ [][NextInvalid]_vars

(***************************************************************************)
(* The specifications below start after bring-up: the link is up, the      *)
(* address is assigned, the socket is open, the network task is at the top *)
(* of its loop, and the host has configured the batch size.                *)
(***************************************************************************)
ReadyLinkUp(values, datagrams) ==
    \/ AcqCheckState
    \/ AcqCheckNetwork
    \/ AcqRead(values)
    \/ AcqGate
    \/ AcqStore
    \/ AcqIncrement
    \/ AcqBatchFull
    \/ AcqBuild
    \/ AcqBuildHeader
    \/ AcqSendRaw
    \/ AcqUdpSend
    \/ AcqTransmit
    \/ AcqCountSent
    \/ AcqReset
    \/ NetLinkCheck
    \/ NetRecvTimeout
    \/ NetRecv(datagrams)
    \/ NetStartAcq

ReadyLoop(values, datagrams, max_events) ==
    \/ ReadyLinkUp(values, datagrams)
    \/ NetRelink
    \/ EthNotify(max_events)

\* the state after bring-up and one CONFIGURE(CONFIG_BATCH_SIZE, size), the
\* acquisition task still polling for ACQ_STATE_RUNNING
Configured(size) ==
    /\ sequence_counter = 0
    /\ CodecIdle
    /\ SocketIdle
    /\ AdcIdle
    /\ EthIdle
    /\ PoolIdle
    /\ c_buf = << >>
    /\ c_out_len = 0
    /\ acq_state = "IDLE"
    /\ current_channel = TASK_ACQUISITION_DEFAULT_CHANNEL
    /\ threshold_mv = TASK_ACQUISITION_DEFAULT_THRESHOLD_MV
    /\ batch_size = size
    /\ sample_buffer = << >>
    /\ sample_index = 0
    /\ acq_stats = NoAcqStats
    /\ acq_pc = "top"
    /\ acq_loc = AcqIdleLocals
    /\ net_state = "READY"
    /\ net_pc = "loop"
    /\ net_loc = NetIdleLocals
    /\ remote_target = NoEndpoint
    /\ target_set_by_start = FALSE
    /\ net_stats = [packets_sent |-> 0, errors |-> 0]
    /\ s_eth_link_known = TRUE
    /\ s_eth_link_up = TRUE
    /\ ip_assigned = TRUE
    /\ wire = NoWire
    /\ obs = NoObs
    /\ n_reads = 0
    /\ n_dgrams = 0
    /\ n_link = 0

(***************************************************************************)
(* SpecReset: CONFIGURE reset sequence and GET_STATUS while batches of one *)
(* are built                                                               *)
(***************************************************************************)
ResetDatagrams ==
    {HostCommand(CMD_START_ACQ, 0, 0),
     HostCommand(CMD_CONFIGURE, CONFIG_RESET_SEQUENCE, 0),
     HostCommand(CMD_GET_STATUS, 0, 0)}

InitReset == Configured(1)

NextReset == ReadyLoop({4095}, ResetDatagrams, MaxLinkChanges)

SpecReset == InitReset /\ [][NextReset]_vars

(***************************************************************************)
(* SpecStats: Pong and Status sent while batches of one are sent           *)
(***************************************************************************)
StatsDatagrams ==
    {HostCommand(CMD_START_ACQ, 0, 0),
     HostPacket(MSG_TYPE_PING, << >>),
     HostCommand(CMD_GET_STATUS, 0, 0)}

InitStats == Configured(1)

NextStats == ReadyLoop({4095}, StatsDatagrams, MaxLinkChanges)

SpecStats == InitStats /\ [][NextStats]_vars

(***************************************************************************)
(* SpecOrder: batches of one and of two collected from readings below, at  *)
(* and above the threshold, the configuration left alone, the link up     *)
(***************************************************************************)
OrderDatagrams ==
    {HostCommand(CMD_START_ACQ, 0, 0),
     HostCommand(CMD_GET_STATUS, 0, 0)}

InitOrder == Configured(1) \/ Configured(2)

NextOrder == ReadyLinkUp(AdcValues, OrderDatagrams)

SpecOrder == InitOrder /\ [][NextOrder]_vars

(***************************************************************************)
(* SpecLargeBatch: the last sample of a batch of 250, 251 or 500 is        *)
(* collected and the batch is built, the link staying up                   *)
(***************************************************************************)
LargeBatchSizes == {250, 251, ACQUISITION_MAX_BATCH_SIZE}

\* the state after bring-up, CONFIGURE(CONFIG_BATCH_SIZE, size), START_ACQ of the
\* first host and pending readings of 4095, the acquisition task at the top of its
\* loop
Collecting(size, pending) ==
    /\ sequence_counter = 0
    /\ CodecIdle
    /\ SocketIdle
    /\ AdcIdle
    /\ EthIdle
    /\ PoolIdle
    /\ c_buf = << >>
    /\ c_out_len = 0
    /\ acq_state = "RUNNING"
    /\ current_channel = TASK_ACQUISITION_DEFAULT_CHANNEL
    /\ threshold_mv = TASK_ACQUISITION_DEFAULT_THRESHOLD_MV
    /\ batch_size = size
    /\ sample_buffer = [i \in 1 .. pending |-> ADC_MAX_VALUE]
    /\ sample_index = pending
    /\ acq_stats = [NoAcqStats EXCEPT !.samples_collected = pending]
    /\ acq_pc = "top"
    /\ acq_loc = AcqIdleLocals
    /\ net_state = "READY"
    /\ net_pc = "loop"
    /\ net_loc = NetIdleLocals
    /\ remote_target = [ip |-> << 192, 168, 0, 10 >>, port |-> 50000]
    /\ target_set_by_start = TRUE
    /\ net_stats = [packets_sent |-> 0, errors |-> 0]
    /\ s_eth_link_known = TRUE
    /\ s_eth_link_up = TRUE
    /\ ip_assigned = TRUE
    /\ wire = NoWire
    /\ obs = [NoObs EXCEPT
                !.gate = [i \in 1 .. pending |-> mv_to_adc(TASK_ACQUISITION_DEFAULT_THRESHOLD_MV)],
                !.chan = [i \in 1 .. pending |-> TASK_ACQUISITION_DEFAULT_CHANNEL],
                !.taken = [i \in 1 .. pending |-> ADC_MAX_VALUE],
                !.unsent = [i \in 1 .. pending |-> ADC_MAX_VALUE],
                !.first = [ip |-> << 192, 168, 0, 10 >>, port |-> 50000]]
    /\ n_reads = 0
    /\ n_dgrams = 0
    /\ n_link = 0

LargeBatchDatagrams ==
    {HostCommand(CMD_START_ACQ, 0, 0),
     HostCommand(CMD_GET_STATUS, 0, 0)}

InitLargeBatch == \E size \in LargeBatchSizes : Collecting(size, size - 1)

NextLargeBatch == ReadyLinkUp({ADC_MAX_VALUE}, LargeBatchDatagrams)

SpecLargeBatch == InitLargeBatch /\ [][NextLargeBatch]_vars

(***************************************************************************)
(* The socket layer on one slot.  udp_net_callback, udp_socket_create and  *)
(* udp_socket_close hold socket_mutex; udp_socket_recv and udp_socket_send *)
(* do not.  A thread waiting in osMessageQueueGet receives the next        *)
(* message put to the queue directly and is made ready.                    *)
(***************************************************************************)
MaxArrivals == 3

MaxSockCalls == 3

\* lengths of the datagrams the stack delivers: short, the capacity of a record, longer
DatagramLens == {8, UDP_RECV_BUFFER_SIZE, UDP_RECV_BUFFER_SIZE + 28}

\* buffer_len of the callers of udp_socket_recv; the network task passes PACKET_BUFFER_SIZE
RecvBufferLens == {4, PACKET_BUFFER_SIZE}

\* len of the callers of udp_socket_send
SendLens == {0, HEADER_SIZE, UDP_MAX_PAYLOAD_SIZE + 1}

\* what a read of pkt->len gives once the pool the record came from is deleted
StaleLens(len) == {len, 0, U16 - 1}

\* (mutation of StoreCopyLen: the record takes the datagram whole)
StoreCopyLen_Whole(len) == len

\* udp_net_callback: copy_len
StoreCopyLen(len) == IF len < UDP_RECV_BUFFER_SIZE THEN len ELSE UDP_RECV_BUFFER_SIZE

\* udp_socket_recv: copy_len
RecvCopyLen(pkt_len, buffer_len) == IF pkt_len < buffer_len THEN pkt_len ELSE buffer_len

\* (mutation of QueueTake: the newest message is taken)
QueueTake_Newest(msgs) == [msg |-> msgs[Len(msgs)], rest |-> SubSeq(msgs, 1, Len(msgs) - 1)]

\* osMessageQueueGet on a queue that holds messages
QueueTake(msgs) == [msg |-> Head(msgs), rest |-> Tail(msgs)]

\* the receiver's locals once osMessageQueuePut handed it msg
Woken(loc, msg) == [loc EXCEPT !.os_status = "osOK", !.pkt = msg]

\* (mutation of CloseWakes: the receiver is handed a datagram record, not the sentinel)
CloseWakes_Datagram(loc) == Woken(loc, [id |-> 1, len |-> 8])

\* udp_socket_close and free_socket: what the receiver waiting on the queue is handed
CloseWakes(loc) == Woken(loc, UDP_RX_PKT_CLOSING)

Dispatched(type, pkt, len) == [type |-> type, id |-> pkt.id, len |-> len, stored |-> pkt.len]

\* the stack delivers a datagram of len bytes to the slot's handle
udp_net_callback(len) ==
    /\ n_arrived < MaxArrivals
    /\ close_pc = "idle"
    /\ n_arrived' = n_arrived + 1
    /\ LET pkt == [id |-> n_arrived + 1, len |-> StoreCopyLen(len) % U16] IN
       IF \/ SOCKET_FLAG_USED \notin flags
          \/ SOCKET_FLAG_CLOSING \in flags
          \/ rx_pool.null
          \/ rx_queue.null
       THEN /\ sk_obs' = [sk_obs EXCEPT !.last = Dispatched("ignored", pkt, len)]
            /\ UNCHANGED << rx_queue, rx_pool, rx_dropped, recv_pc, recv_loc >>
       ELSE IF rx_pool.used >= UDP_RX_QUEUE_LEN
       THEN /\ rx_dropped' = rx_dropped + 1
            /\ sk_obs' = [sk_obs EXCEPT !.last = Dispatched("dropped", pkt, len)]
            /\ UNCHANGED << rx_queue, rx_pool, recv_pc, recv_loc >>
       ELSE IF recv_pc = "waiting"
       THEN /\ recv_pc' = "woken"
            /\ recv_loc' = Woken(recv_loc, pkt)
            /\ rx_pool' = [rx_pool EXCEPT !.used = @ + 1]
            /\ sk_obs' = [sk_obs EXCEPT !.last = Dispatched("queued", pkt, len),
                                        !.enq = Append(@, pkt.id)]
            /\ UNCHANGED << rx_queue, rx_dropped >>
       ELSE IF Len(rx_queue.msgs) < UDP_RX_QUEUE_LEN
       THEN /\ rx_queue' = [rx_queue EXCEPT !.msgs = Append(@, pkt)]
            /\ rx_pool' = [rx_pool EXCEPT !.used = @ + 1]
            /\ sk_obs' = [sk_obs EXCEPT !.last = Dispatched("queued", pkt, len),
                                        !.enq = Append(@, pkt.id)]
            /\ UNCHANGED << rx_dropped, recv_pc, recv_loc >>
       ELSE /\ rx_dropped' = rx_dropped + 1
            /\ sk_obs' = [sk_obs EXCEPT !.last = Dispatched("dropped", pkt, len)]
            /\ UNCHANGED << rx_queue, rx_pool, recv_pc, recv_loc >>
    /\ UNCHANGED << sequence_counter, codec_vars, task_vars, adc_vars, eth_vars, pool_vars, flags, recv_res, close_pc,
                    send_res, n_sock >>

RecvResult(status, loc) ==
    [status |-> status, received |-> 0, id |-> 0, len |-> 0, buffer_len |-> loc.buffer_len,
     closing |-> loc.closing]

\* udp_socket_recv up to the call of osMessageQueueGet
RecvCheck(buffer_len) ==
    /\ recv_pc = "idle"
    /\ n_sock < MaxSockCalls
    /\ n_sock' = n_sock + 1
    /\ IF SOCKET_FLAG_BOUND \notin flags
       THEN /\ recv_res' = RecvResult("NOT_INIT", RecvIdleLocals)
            /\ UNCHANGED << recv_pc, recv_loc >>
       ELSE IF rx_queue.null
       THEN /\ recv_res' = RecvResult("ERROR", RecvIdleLocals)
            /\ UNCHANGED << recv_pc, recv_loc >>
       ELSE /\ recv_pc' = "get"
            /\ recv_loc' = [RecvIdleLocals EXCEPT !.buffer_len = buffer_len]
            /\ recv_res' = NoRecvResult
    /\ UNCHANGED << sequence_counter, codec_vars, task_vars, adc_vars, eth_vars, pool_vars, flags, rx_queue, rx_pool,
                    rx_dropped, close_pc, send_res, sk_obs, n_arrived >>

\* osMessageQueueGet(sock->rx_queue, &pkt, NULL, timeout_ms) is entered
RecvGet ==
    /\ recv_pc = "get"
    /\ IF rx_queue.null
       THEN /\ recv_pc' = "woken"
            /\ recv_loc' = [recv_loc EXCEPT !.os_status = "osErrorParameter"]
            /\ UNCHANGED rx_queue
       ELSE IF rx_queue.msgs # << >>
       THEN /\ recv_pc' = "woken"
            /\ recv_loc' = Woken(recv_loc, QueueTake(rx_queue.msgs).msg)
            /\ rx_queue' = [rx_queue EXCEPT !.msgs = QueueTake(rx_queue.msgs).rest]
       ELSE /\ recv_pc' = "waiting"
            /\ UNCHANGED << recv_loc, rx_queue >>
    /\ UNCHANGED << sequence_counter, codec_vars, task_vars, adc_vars, eth_vars, pool_vars, flags, rx_pool, rx_dropped,
                    recv_res, close_pc, send_res, sk_obs, n_arrived, n_sock >>

\* timeout_ms passes with the queue empty
RecvTimeout ==
    /\ recv_pc = "waiting"
    /\ recv_pc' = "idle"
    /\ recv_res' = RecvResult("TIMEOUT", recv_loc)
    /\ recv_loc' = RecvIdleLocals
    /\ UNCHANGED << sequence_counter, codec_vars, task_vars, adc_vars, eth_vars, pool_vars, flags, rx_queue, rx_pool,
                    rx_dropped, close_pc, send_res, sk_obs, n_arrived, n_sock >>

\* (mutation of PoolFree: the record is not given back)
PoolFree_Leaks(pool) == pool

\* osMemoryPoolFree(sock->rx_pool, pkt)
PoolFree(pool) == [pool EXCEPT !.used = @ - 1]

\* udp_socket_recv from the return of osMessageQueueGet
RecvReturn ==
    /\ recv_pc = "woken"
    /\ recv_pc' = "idle"
    /\ recv_loc' = RecvIdleLocals
    /\ IF recv_loc.os_status # "osOK" \/ recv_loc.pkt = NoPkt \/ recv_loc.pkt = UDP_RX_PKT_CLOSING
       THEN /\ recv_res' = RecvResult("ERROR", recv_loc)
            /\ UNCHANGED << rx_pool, sk_obs >>
       ELSE \E len \in (IF recv_loc.freed THEN StaleLens(recv_loc.pkt.len) ELSE {recv_loc.pkt.len}) :
               /\ recv_res' = [status |-> "OK",
                               received |-> RecvCopyLen(len, recv_loc.buffer_len),
                               id |-> recv_loc.pkt.id,
                               len |-> recv_loc.pkt.len,
                               buffer_len |-> recv_loc.buffer_len,
                               closing |-> recv_loc.closing]
               /\ rx_pool' = IF rx_pool.null \/ recv_loc.freed
                              THEN rx_pool
                              ELSE PoolFree(rx_pool)
               /\ sk_obs' = [sk_obs EXCEPT !.ret = Append(@, recv_loc.pkt.id)]
    /\ UNCHANGED << sequence_counter, codec_vars, task_vars, adc_vars, eth_vars, pool_vars, flags, rx_queue, rx_dropped,
                    close_pc, send_res, n_arrived, n_sock >>

\* udp_socket_create on the free slot: the stack, the pool and the queue give what
\* is asked of them, or one of them does not
udp_socket_create ==
    /\ close_pc = "idle"
    /\ SOCKET_FLAG_USED \notin flags
    /\ n_sock < MaxSockCalls
    /\ n_sock' = n_sock + 1
    /\ \E ok \in BOOLEAN :
          IF ok
          THEN /\ flags' = {SOCKET_FLAG_USED, SOCKET_FLAG_BOUND}
               /\ rx_queue' = [null |-> FALSE, msgs |-> << >>]
               /\ rx_pool' = [null |-> FALSE, used |-> 0]
               /\ rx_dropped' = 0
               /\ sk_obs' = [NoSockObs EXCEPT !.last = sk_obs.last]
          ELSE /\ flags' = {}
               /\ rx_queue' = NoQueue
               /\ rx_pool' = NoPool
               /\ rx_dropped' = 0
               /\ sk_obs' = sk_obs
    /\ UNCHANGED << sequence_counter, codec_vars, task_vars, adc_vars, eth_vars, pool_vars, recv_pc, recv_loc, recv_res,
                    close_pc, send_res, n_arrived >>

\* udp_socket_close up to LOG_DEBUG, which lets other threads run
CloseMark ==
    /\ close_pc = "idle"
    /\ SOCKET_FLAG_USED \in flags
    /\ n_sock < MaxSockCalls
    /\ n_sock' = n_sock + 1
    /\ close_pc' = "marked"
    /\ flags' = flags \union {SOCKET_FLAG_CLOSING}
    /\ recv_loc' = [recv_loc EXCEPT !.closing = (@ \/ recv_pc = "waiting")]
    /\ UNCHANGED << sequence_counter, codec_vars, task_vars, adc_vars, eth_vars, pool_vars, rx_queue, rx_pool, rx_dropped,
                    recv_pc, recv_res, send_res, sk_obs, n_arrived >>

\* the rest of udp_socket_close: the queue is reset, the sentinel is put, the stack
\* handle is released, free_socket puts the sentinel again, deletes the queue and
\* the pool, and clears the slot
CloseFree ==
    /\ close_pc = "marked"
    /\ close_pc' = "idle"
    /\ IF recv_pc = "waiting"
       THEN /\ recv_pc' = "woken"
            /\ recv_loc' = CloseWakes(recv_loc)
       ELSE /\ recv_pc' = recv_pc
            /\ recv_loc' = [recv_loc EXCEPT !.freed = (@ \/ (recv_pc = "woken" /\ recv_loc.pkt.id > 0))]
    /\ flags' = {}
    /\ rx_queue' = NoQueue
    /\ rx_pool' = NoPool
    /\ rx_dropped' = 0
    /\ UNCHANGED << sequence_counter, codec_vars, task_vars, adc_vars, eth_vars, pool_vars, recv_res, send_res, sk_obs,
                    n_arrived, n_sock >>

\* (mutation of udp_socket_send: the buffer is allocated before the link is looked at)
udp_socket_send_AllocFirst(fl, link_up, len, alloc_ok, send_ok) ==
    IF len = 0 \/ len > UDP_MAX_PAYLOAD_SIZE
    THEN [status |-> "INVALID_PARAM", allocated |-> FALSE, handed |-> FALSE]
    ELSE IF SOCKET_FLAG_BOUND \notin fl
    THEN [status |-> "NOT_INIT", allocated |-> FALSE, handed |-> FALSE]
    ELSE IF ~alloc_ok
    THEN [status |-> "NO_MEMORY", allocated |-> FALSE, handed |-> FALSE]
    ELSE IF ~link_up
    THEN [status |-> "LINK_DOWN", allocated |-> TRUE, handed |-> FALSE]
    ELSE IF ~send_ok
    THEN [status |-> "NET_ERROR", allocated |-> TRUE, handed |-> TRUE]
    ELSE [status |-> "OK", allocated |-> TRUE, handed |-> TRUE]

\* udp_socket_send(handle, remote, data, len) with handle, remote and data non-null:
\* alloc_ok is whether netUDP_GetBuffer gives a buffer, send_ok whether netUDP_Send
\* returns netOK; allocated is whether a buffer was taken, handed whether
\* netUDP_Send was called with it
udp_socket_send(fl, link_up, len, alloc_ok, send_ok) ==
    IF len = 0 \/ len > UDP_MAX_PAYLOAD_SIZE
    THEN [status |-> "INVALID_PARAM", allocated |-> FALSE, handed |-> FALSE]
    ELSE IF SOCKET_FLAG_BOUND \notin fl
    THEN [status |-> "NOT_INIT", allocated |-> FALSE, handed |-> FALSE]
    ELSE IF ~link_up
    THEN [status |-> "LINK_DOWN", allocated |-> FALSE, handed |-> FALSE]
    ELSE IF ~alloc_ok
    THEN [status |-> "NO_MEMORY", allocated |-> FALSE, handed |-> FALSE]
    ELSE IF ~send_ok
    THEN [status |-> "NET_ERROR", allocated |-> TRUE, handed |-> TRUE]
    ELSE [status |-> "OK", allocated |-> TRUE, handed |-> TRUE]

\* a thread calls udp_socket_send on the slot
CallSend ==
    /\ n_sock < MaxSockCalls
    /\ n_sock' = n_sock + 1
    /\ \E len \in SendLens, alloc_ok \in BOOLEAN, send_ok \in BOOLEAN :
          LET r == udp_socket_send(flags, udp_socket_is_link_up, len, alloc_ok, send_ok) IN
          send_res' = [status |-> r.status, allocated |-> r.allocated, handed |-> r.handed,
                       bound |-> SOCKET_FLAG_BOUND \in flags, link |-> udp_socket_is_link_up,
                       len |-> len, alloc_ok |-> alloc_ok, send_ok |-> send_ok]
    /\ UNCHANGED << sequence_counter, codec_vars, task_vars, adc_vars, eth_vars, pool_vars, flags, rx_queue, rx_pool,
                    rx_dropped, recv_pc, recv_loc, recv_res, close_pc, sk_obs, n_arrived >>

(***************************************************************************)
(* SpecQueue: datagrams are delivered to a bound slot and one thread calls *)
(* udp_socket_recv on it; nothing closes the slot (network_task never      *)
(* does)                                                                   *)
(***************************************************************************)
InitQueue ==
    /\ sequence_counter = 0
    /\ CodecIdle
    /\ TasksBooted
    /\ SlotBound
    /\ SockThreadsIdle
    /\ AdcIdle
    /\ EthIdle
    /\ PoolIdle

NextQueue ==
    \/ \E len \in DatagramLens : udp_net_callback(len)
    \/ \E buffer_len \in RecvBufferLens : RecvCheck(buffer_len)
    \/ RecvGet
    \/ RecvTimeout
    \/ RecvReturn

SpecQueue == InitQueue /\ [][NextQueue]_vars

(***************************************************************************)
(* SpecSocket: the slot is created, read and closed by threads that run at *)
(* any time, while datagrams arrive                                        *)
(***************************************************************************)
InitSocket ==
    /\ sequence_counter = 0
    /\ CodecIdle
    /\ TasksBooted
    /\ SlotFree \/ SlotBound
    /\ SockThreadsIdle
    /\ AdcIdle
    /\ EthIdle
    /\ PoolIdle

NextSocket ==
    \/ udp_socket_create
    \/ \E len \in DatagramLens : udp_net_callback(len)
    \/ \E buffer_len \in RecvBufferLens : RecvCheck(buffer_len)
    \/ RecvGet
    \/ RecvTimeout
    \/ RecvReturn
    \/ CloseMark
    \/ CloseFree

SpecSocket == InitSocket /\ [][NextSocket]_vars

\* the closer and the receiver are scheduled
SpecSocketFair ==
    /\ SpecSocket
    /\ WF_vars(CloseFree)
    /\ WF_vars(RecvReturn)

(***************************************************************************)
(* SpecSend: udp_socket_send is called on the slot while it is created and *)
(* closed, the link goes up and down and the interface gets its address    *)
(***************************************************************************)
NextSend ==
    \/ udp_socket_create
    \/ CloseMark
    \/ CloseFree
    \/ CallSend
    \/ EthNotify(MaxLinkEvents)
    \/ IpAssigned

SpecSend == InitSocket /\ [][NextSend]_vars

(***************************************************************************)
(* adc.c: the driver called by one thread, the completion interrupt and    *)
(* the network task changing the channel                                   *)
(***************************************************************************)
MaxAdcCalls == 3
MaxChannelChanges == 1

AdcChannels == {0, 1}

AdcDevice == [initialized |-> adc_initialized, channel |-> adc_current_channel, hw |-> adc_hw, aborted |-> FALSE]

\* adc_deinit(): the interrupt is disabled and the converter powered down. A
\* conversion in flight either completes before the power goes (completes: the
\* NVIC holds the request back) or is lost
adc_deinit(d, completes) ==
    IF d.initialized = 0
    THEN d
    ELSE [d EXCEPT !.initialized = 0,
                   !.hw = [converting |-> FALSE,
                           pending |-> @.pending \/ (@.converting /\ completes),
                           gen |-> @.gen],
                   !.aborted = d.hw.converting /\ ~completes]

\* adc_init(channel) on the device: ADCR is written with the START bits clear,
\* adc_done is left as it is
AdcInitDevice(d, channel) ==
    IF channel >= ADC_CHANNEL_MAX \/ d.initialized = 1
    THEN d
    ELSE [d EXCEPT !.initialized = 1, !.channel = channel]

AdcReturn(op, status, wrote, value) ==
    /\ adc_pc' = "idle"
    /\ adc_loc' = AdcIdleLocals
    /\ adc_res' = [op |-> op, status |-> status, wrote |-> wrote, value |-> value,
                   init |-> adc_initialized = 1,
                   fresh |-> adc_obs.irq_since,
                   latest |-> adc_obs.irq_since /\ adc_obs.done_gen = adc_obs.started]

\* adc_start_conversion(), called directly or by adc_read_sync, up to adc_done = 0U
AdcStartClear(op) ==
    /\ adc_pc = "idle"
    /\ n_adc < MaxAdcCalls
    /\ n_adc' = n_adc + 1
    /\ IF adc_initialized = 0
       THEN /\ AdcReturn(op, "ADC_ERROR_INIT", FALSE, 0)
            /\ UNCHANGED << adc_done, adc_obs >>
       ELSE /\ adc_done' = 0
            /\ adc_pc' = "kick"
            /\ adc_loc' = [op |-> op, spin |-> 0]
            /\ adc_obs' = [adc_obs EXCEPT !.irq_since = FALSE]
            /\ UNCHANGED adc_res
    /\ UNCHANGED << sequence_counter, codec_vars, task_vars, sock_vars, eth_vars, pool_vars, adc_last_value,
                    adc_initialized, adc_current_channel, adc_hw, n_chan >>

\* adc_start_conversion(): the two writes of ADCR; the conversion in flight, if
\* any, is stopped and a new one started
AdcStartKick ==
    /\ adc_pc = "kick"
    /\ adc_hw' = [adc_hw EXCEPT !.converting = TRUE, !.gen = adc_obs.started + 1]
    /\ adc_obs' = [adc_obs EXCEPT !.started = @ + 1]
    /\ IF adc_loc.op = "read_sync"
       THEN /\ adc_pc' = "spin"
            /\ UNCHANGED << adc_loc, adc_res >>
       ELSE AdcReturn("start", "ADC_OK", FALSE, 0)
    /\ UNCHANGED << sequence_counter, codec_vars, task_vars, sock_vars, eth_vars, pool_vars, adc_last_value,
                    adc_done, adc_initialized, adc_current_channel, n_adc, n_chan >>

\* adc_read_sync(): one turn of while (!adc_done);
AdcSpin ==
    /\ adc_pc = "spin"
    /\ adc_done = 0
    /\ adc_loc' = [adc_loc EXCEPT !.spin = 1 - @]
    /\ UNCHANGED << sequence_counter, codec_vars, task_vars, sock_vars, eth_vars, pool_vars, adc_last_value,
                    adc_done, adc_initialized, adc_current_channel, adc_hw, adc_pc,
                    adc_res, adc_obs, n_adc, n_chan >>

\* adc_read_sync(): the loop ends, *value = adc_last_value
AdcReadReturn ==
    /\ adc_pc = "spin"
    /\ adc_done # 0
    /\ AdcReturn("read_sync", "ADC_OK", TRUE, adc_last_value)
    /\ UNCHANGED << sequence_counter, codec_vars, task_vars, sock_vars, eth_vars, pool_vars, adc_last_value,
                    adc_done, adc_initialized, adc_current_channel, adc_hw, adc_obs,
                    n_adc, n_chan >>

\* (mutation of adc_get_value: adc_done is not looked at)
AdcGetStatus_NoBusy(initialized, done) ==
    IF initialized = 0 THEN "ADC_ERROR_INIT" ELSE "ADC_OK"

\* adc_get_value(value) with value != NULL: what it returns
AdcGetStatus(initialized, done) ==
    IF initialized = 0 THEN "ADC_ERROR_INIT"
    ELSE IF done = 0 THEN "ADC_ERROR_BUSY"
    ELSE "ADC_OK"

adc_get_value ==
    /\ adc_pc = "idle"
    /\ n_adc < MaxAdcCalls
    /\ n_adc' = n_adc + 1
    /\ LET status == AdcGetStatus(adc_initialized, adc_done)
       IN  AdcReturn("get_value", status, status = "ADC_OK",
                     IF status = "ADC_OK" THEN adc_last_value ELSE 0)
    /\ UNCHANGED << sequence_counter, codec_vars, task_vars, sock_vars, eth_vars, pool_vars, adc_last_value,
                    adc_done, adc_initialized, adc_current_channel, adc_hw, adc_obs, n_chan >>

\* the conversion completes, or the request held back is let through, and
\* ADC_IRQHandler runs
ADC_IRQHandler ==
    /\ adc_initialized = 1
    /\ adc_hw.converting \/ adc_hw.pending
    /\ \E value \in AdcValues : adc_last_value' = value
    /\ adc_done' = 1
    /\ adc_hw' = [adc_hw EXCEPT !.converting = FALSE, !.pending = FALSE]
    /\ adc_obs' = [adc_obs EXCEPT !.done_gen = adc_hw.gen, !.irq_since = TRUE]
    /\ UNCHANGED << sequence_counter, codec_vars, task_vars, sock_vars, eth_vars, pool_vars, adc_initialized,
                    adc_current_channel, adc_pc, adc_loc, adc_res, n_adc, n_chan >>

AdcSetDevice(d) ==
    /\ adc_initialized' = d.initialized
    /\ adc_current_channel' = d.channel
    /\ adc_hw' = d.hw
    /\ adc_obs' = [adc_obs EXCEPT !.aborted = @ \/ d.aborted]

\* acquisition_set_channel(channel) in the network task, for a channel that is
\* not the current one: adc_deinit() then adc_init(channel), with no step of the
\* thread that reads in between
AdcSetChannel ==
    /\ n_chan < MaxChannelChanges
    /\ n_chan' = n_chan + 1
    /\ \E channel \in AdcChannels \ {adc_current_channel}, completes \in BOOLEAN :
           AdcSetDevice(AdcInitDevice(adc_deinit(AdcDevice, completes), channel))
    /\ UNCHANGED << sequence_counter, codec_vars, task_vars, sock_vars, eth_vars, pool_vars, adc_last_value,
                    adc_done, adc_pc, adc_loc, adc_res, n_adc >>

\* adc_deinit() and adc_init(channel) called on their own
AdcDeinit ==
    /\ n_chan < MaxChannelChanges
    /\ adc_initialized = 1
    /\ n_chan' = n_chan + 1
    /\ \E completes \in BOOLEAN : AdcSetDevice(adc_deinit(AdcDevice, completes))
    /\ UNCHANGED << sequence_counter, codec_vars, task_vars, sock_vars, eth_vars, pool_vars, adc_last_value,
                    adc_done, adc_pc, adc_loc, adc_res, n_adc >>

AdcInit ==
    /\ adc_initialized = 0
    /\ \E channel \in AdcChannels : AdcSetDevice(AdcInitDevice(AdcDevice, channel))
    /\ UNCHANGED << sequence_counter, codec_vars, task_vars, sock_vars, eth_vars, pool_vars, adc_last_value,
                    adc_done, adc_pc, adc_loc, adc_res, n_adc, n_chan >>

(***************************************************************************)
(* SpecAdcRead: the acquisition task reads with adc_read_sync while the    *)
(* network task changes the channel; SpecAdcReadFair schedules the reading *)
(* thread and lets every conversion in flight complete                     *)
(***************************************************************************)
InitAdc ==
    /\ sequence_counter = 0
    /\ CodecIdle
    /\ TasksBooted
    /\ SocketIdle
    /\ AdcIdle
    /\ EthIdle
    /\ PoolIdle

NextAdcRead ==
    \/ AdcStartClear("read_sync")
    \/ AdcStartKick
    \/ AdcSpin
    \/ AdcReadReturn
    \/ ADC_IRQHandler
    \/ AdcSetChannel

SpecAdcRead == InitAdc /\ [][NextAdcRead]_vars

SpecAdcReadFair ==
    /\ SpecAdcRead
    /\ WF_vars(AdcStartKick)
    /\ WF_vars(AdcSpin)
    /\ WF_vars(AdcReadReturn)
    /\ WF_vars(ADC_IRQHandler)

(***************************************************************************)
(* SpecAdcDriver: the driver's calls made one after the other by a thread  *)
(* the completion interrupt preempts                                       *)
(***************************************************************************)
NextAdcDriver ==
    \/ \E op \in {"start", "read_sync"} : AdcStartClear(op)
    \/ AdcStartKick
    \/ AdcSpin
    \/ AdcReadReturn
    \/ adc_get_value
    \/ ADC_IRQHandler
    \/ AdcDeinit
    \/ AdcInit

SpecAdcDriver == InitAdc /\ [][NextAdcDriver]_vars

(***************************************************************************)
(* udp_socket.c: netETH_Notify store by store and udp_socket_is_link_up    *)
(* read by read                                                            *)
(***************************************************************************)
MaxLinkReads == 2

\* what udp_socket_is_link_up is to return when the notification processed last
\* is last
LinkExpected(last) == IF last = "none" THEN ip_assigned ELSE last = "LinkUp"

\* netETH_Notify(0, event, val): s_eth_link_known = true
NotifyKnown(max_events) ==
    /\ eth_pc = "idle"
    /\ n_link < max_events
    /\ \E event \in {"LinkUp", "LinkDown"} :
          /\ s_eth_link_known => s_eth_link_up # (event = "LinkUp")
          /\ eth_pc' = event
          /\ lk_call' = [lk_call EXCEPT !.ok = IF lk_call.pc = "idle" THEN @
                                               ELSE @ \cup {event = "LinkUp"}]
    /\ s_eth_link_known' = TRUE
    /\ n_link' = n_link + 1
    /\ UNCHANGED << sequence_counter, codec_vars, sock_vars, adc_vars, pool_vars, acq_stats, acq_shared,
                    sample_buffer, sample_index, acq_pc, acq_loc, net_task_vars, net_stats,
                    s_eth_link_up, ip_assigned, wire, obs, n_reads, n_dgrams >>

\* netETH_Notify: s_eth_link_up = true or false
NotifyUp ==
    /\ eth_pc # "idle"
    /\ s_eth_link_up' = (eth_pc = "LinkUp")
    /\ eth_pc' = "idle"
    /\ lk_call' = [lk_call EXCEPT !.last = eth_pc]
    /\ UNCHANGED << sequence_counter, codec_vars, sock_vars, adc_vars, pool_vars, acq_stats, acq_shared,
                    sample_buffer, sample_index, acq_pc, acq_loc, net_task_vars, net_stats,
                    s_eth_link_known, ip_assigned, wire, obs, n_reads, n_dgrams, n_link >>

\* udp_socket_is_link_up(): if (s_eth_link_known)
LinkUpReadKnown ==
    /\ lk_call.pc = "idle"
    /\ lk_call.n < MaxLinkReads
    /\ lk_call' = [lk_call EXCEPT
                     !.pc = "known", !.known = s_eth_link_known, !.returned = FALSE,
                     !.n = @ + 1,
                     !.ok = {LinkExpected(lk_call.last)}
                            \cup (IF eth_pc = "idle" THEN {} ELSE {eth_pc = "LinkUp"})]
    /\ UNCHANGED << sequence_counter, codec_vars, task_vars, sock_vars, adc_vars, pool_vars, eth_pc >>

\* return s_eth_link_up, or whether the address netIF_GetOption gives is not 0.0.0.0
LinkUpValue(known) == IF known THEN s_eth_link_up ELSE ip_assigned

LinkUpReturn ==
    /\ lk_call.pc = "known"
    /\ lk_call' = [lk_call EXCEPT
                     !.pc = "idle", !.returned = TRUE, !.res = LinkUpValue(lk_call.known),
                     !.ok = @ \cup {LinkExpected(lk_call.last)}]
    /\ UNCHANGED << sequence_counter, codec_vars, task_vars, sock_vars, adc_vars, pool_vars, eth_pc >>

(***************************************************************************)
(* SpecLinkCache: udp_socket_is_link_up called while the stack notifies of *)
(* the link and the interface gets its address                             *)
(***************************************************************************)
NextLinkCache ==
    \/ NotifyKnown(MaxLinkEvents)
    \/ NotifyUp
    \/ LinkUpReadKnown
    \/ LinkUpReturn
    \/ IpAssigned

SpecLinkCache == InitAdc /\ [][NextLinkCache]_vars

(***************************************************************************)
(* udp_socket.c: the pool of slots, the stack's sockets and socket_mutex   *)
(***************************************************************************)
MaxPoolCalls == 4

CreateFailures == {"none", "get_socket", "open", "rx_pool", "rx_queue"}

SlotMin(S) == CHOOSE x \in S : \A y \in S : x <= y

UsedSlots(pool) == {i \in SlotIds : SOCKET_FLAG_USED \in pool[i].flags}

\* allocate_socket(): the first slot not in use, 0 for NULL
allocate_socket(pool) ==
    IF UsedSlots(pool) = SlotIds THEN 0 ELSE SlotMin(SlotIds \ UsedSlots(pool))

\* (mutation of free_socket: the flags are left)
free_socket_KeepsFlags(pool, i) == [pool EXCEPT ![i] = [ZeroSlot EXCEPT !.flags = pool[i].flags]]

\* free_socket(sock): the queue and the memory pool are deleted, the slot zeroed
free_socket(pool, i) == [pool EXCEPT ![i] = ZeroSlot]

\* netUDP_GetSocket(udp_net_callback): a socket of the stack not handed out,
\* negative if there is none or the stack refuses
GetSocket(stack, ok) == IF ~ok \/ stack = SlotIds THEN -1 ELSE SlotMin(SlotIds \ stack)

\* udp_socket_create between osMutexAcquire and osMutexRelease; fail is the step
\* that fails
CreateInPool(pool, stack, fail) ==
    LET i == allocate_socket(pool)
        id == GetSocket(stack, fail # "get_socket")
        taken == [pool EXCEPT ![i] = [ZeroSlot EXCEPT !.flags = {SOCKET_FLAG_USED},
                                                      !.net_socket = id]]
    IN  IF i = 0
        THEN [pool |-> pool, stack |-> stack, status |-> "NO_MEMORY", handle |-> 0]
        ELSE IF id < 0
        THEN [pool |-> free_socket(taken, i), stack |-> stack, status |-> "NET_ERROR",
              handle |-> 0]
        ELSE IF fail = "open"
        THEN [pool |-> free_socket(taken, i), stack |-> (stack \cup {id}) \ {id},
              status |-> "NET_ERROR", handle |-> 0]
        ELSE IF fail = "rx_pool"
        THEN [pool |-> free_socket(taken, i), stack |-> (stack \cup {id}) \ {id},
              status |-> "NO_MEMORY", handle |-> 0]
        ELSE IF fail = "rx_queue"
        THEN [pool |-> free_socket([taken EXCEPT ![i].rx_pool = FALSE], i),
              stack |-> (stack \cup {id}) \ {id}, status |-> "NO_MEMORY", handle |-> 0]
        ELSE [pool |-> [taken EXCEPT ![i].flags = @ \cup {SOCKET_FLAG_BOUND},
                                     ![i].rx_pool = TRUE, ![i].rx_queue = TRUE],
              stack |-> stack \cup {id}, status |-> "OK", handle |-> i]

\* udp_socket_close between osMutexAcquire and osMutexRelease
CloseInPool(pool, stack, i) ==
    IF SOCKET_FLAG_USED \notin pool[i].flags
    THEN [pool |-> pool, stack |-> stack, status |-> "INVALID_PARAM", handle |-> i]
    ELSE [pool |-> free_socket(pool, i), stack |-> stack \ {pool[i].net_socket},
          status |-> "OK", handle |-> i]

\* find_socket_by_net_handle(socket): the first slot in use with that socket of
\* the stack, 0 for NULL
find_socket_by_net_handle(pool, id) ==
    LET found == {i \in UsedSlots(pool) : pool[i].net_socket = id}
    IN  IF found = {} THEN 0 ELSE SlotMin(found)

\* udp_net_callback(socket, addr, buf, len): the path it takes
DispatchPath(pool, id) ==
    LET i == find_socket_by_net_handle(pool, id) IN
    IF i = 0 THEN "ignored"
    ELSE IF SOCKET_FLAG_CLOSING \in pool[i].flags THEN "ignored"
    ELSE IF SOCKET_FLAG_CALLBACK \in pool[i].flags THEN "callback"
    ELSE IF ~pool[i].rx_pool \/ ~pool[i].rx_queue THEN "ignored"
    ELSE "queued"

\* (mutation of MutexAfter: the callback is called with the mutex held)
MutexAfter_CallbackHolds(thread, path) == IF path = "callback" THEN thread ELSE "none"

\* who holds socket_mutex when the function leaves by path: every path calls
\* osMutexRelease(socket_mutex) before it returns or calls the user's callback
MutexAfter(thread, path) == "none"

PoolResult(op, r, fail) ==
    [op |-> op, status |-> r.status, handle |-> r.handle, fail |-> fail,
     before |-> UsedSlots(socket_pool), after |-> UsedSlots(r.pool),
     stack_before |-> net_stack, stack_after |-> r.stack]

Without(live, i) == SelectSeq(live, LAMBDA h : h # i)

\* osMutexAcquire(socket_mutex, osWaitForever) of udp_socket_create,
\* udp_socket_close, udp_socket_set_callback (thread "app") and udp_net_callback
\* (thread "stack")
PoolAcquire(thread, op, arg) ==
    /\ pl_call[thread].pc = "idle"
    /\ pl_obs.n < MaxPoolCalls
    /\ socket_mutex = "none"
    /\ socket_mutex' = thread
    /\ pl_call' = [pl_call EXCEPT ![thread] = [pc |-> "locked", op |-> op, arg |-> arg]]
    /\ pl_obs' = [pl_obs EXCEPT !.n = @ + 1]
    /\ UNCHANGED << sequence_counter, codec_vars, task_vars, sock_vars, adc_vars, eth_vars,
                    socket_pool, net_stack >>

PoolCreate ==
    /\ pl_call["app"].pc = "locked"
    /\ pl_call["app"].op = "create"
    /\ LET r == CreateInPool(socket_pool, net_stack, pl_call["app"].arg) IN
          /\ socket_pool' = r.pool
          /\ net_stack' = r.stack
          /\ socket_mutex' = MutexAfter("app", r.status)
          /\ pl_obs' = [pl_obs EXCEPT
                          !.res = PoolResult("create", r, pl_call["app"].arg),
                          !.live = IF r.status = "OK" THEN Append(@, r.handle) ELSE @]
    /\ pl_call' = [pl_call EXCEPT !["app"] = NoPoolCall]
    /\ UNCHANGED << sequence_counter, codec_vars, task_vars, sock_vars, adc_vars, eth_vars >>

PoolClose ==
    /\ pl_call["app"].pc = "locked"
    /\ pl_call["app"].op = "close"
    /\ LET r == CloseInPool(socket_pool, net_stack, pl_call["app"].arg) IN
          /\ socket_pool' = r.pool
          /\ net_stack' = r.stack
          /\ socket_mutex' = MutexAfter("app", r.status)
          /\ pl_obs' = [pl_obs EXCEPT
                          !.res = PoolResult("close", r, "none"),
                          !.live = IF r.status = "OK" THEN Without(@, r.handle) ELSE @]
    /\ pl_call' = [pl_call EXCEPT !["app"] = NoPoolCall]
    /\ UNCHANGED << sequence_counter, codec_vars, task_vars, sock_vars, adc_vars, eth_vars >>

\* udp_socket_set_callback(handle, callback, user_data) on a slot in use
PoolSetCallback ==
    /\ pl_call["app"].pc = "locked"
    /\ pl_call["app"].op = "set_callback"
    /\ LET i == pl_call["app"].arg
           r == [pool |-> IF SOCKET_FLAG_USED \in socket_pool[i].flags
                          THEN [socket_pool EXCEPT ![i].flags = @ \cup {SOCKET_FLAG_CALLBACK}]
                          ELSE socket_pool,
                 stack |-> net_stack,
                 status |-> IF SOCKET_FLAG_USED \in socket_pool[i].flags
                            THEN "OK" ELSE "INVALID_PARAM",
                 handle |-> i]
       IN /\ socket_pool' = r.pool
          /\ socket_mutex' = MutexAfter("app", r.status)
          /\ pl_obs' = [pl_obs EXCEPT !.res = PoolResult("set_callback", r, "none")]
    /\ pl_call' = [pl_call EXCEPT !["app"] = NoPoolCall]
    /\ UNCHANGED << sequence_counter, codec_vars, task_vars, sock_vars, adc_vars, eth_vars,
                    net_stack >>

\* udp_net_callback up to its return or to cb(sock, &remote, buf, len, ud)
PoolDispatch ==
    /\ pl_call["stack"].pc = "locked"
    /\ LET path == DispatchPath(socket_pool, pl_call["stack"].arg) IN
          /\ socket_mutex' = MutexAfter("stack", path)
          /\ pl_call' = [pl_call EXCEPT !["stack"] =
                            IF path = "callback" THEN [@ EXCEPT !.pc = "callback"]
                            ELSE NoPoolCall]
          /\ pl_obs' = [pl_obs EXCEPT
                          !.res = [op |-> "dispatch", status |-> path,
                                   handle |-> find_socket_by_net_handle(socket_pool, pl_call["stack"].arg)]]
    /\ UNCHANGED << sequence_counter, codec_vars, task_vars, sock_vars, adc_vars, eth_vars,
                    socket_pool, net_stack >>

\* the user's callback returns, udp_net_callback returns 1
PoolCallbackReturn ==
    /\ pl_call["stack"].pc = "callback"
    /\ pl_call' = [pl_call EXCEPT !["stack"] = NoPoolCall]
    /\ UNCHANGED << sequence_counter, codec_vars, task_vars, sock_vars, adc_vars, eth_vars,
                    socket_pool, socket_mutex, net_stack, pl_obs >>

(***************************************************************************)
(* SpecPool: a thread creates and closes sockets and registers callbacks   *)
(* while the stack dispatches datagrams                                    *)
(***************************************************************************)
NextPool ==
    \/ \E fail \in CreateFailures : PoolAcquire("app", "create", fail)
    \/ \E i \in SlotIds : PoolAcquire("app", "close", i)
    \/ \E i \in SlotIds : PoolAcquire("app", "set_callback", i)
    \/ \E id \in SlotIds : PoolAcquire("stack", "dispatch", id)
    \/ PoolCreate
    \/ PoolClose
    \/ PoolSetCallback
    \/ PoolDispatch
    \/ PoolCallbackReturn

SpecPool == InitAdc /\ [][NextPool]_vars

(***************************************************************************)
(* SpecIndex: the buffer is nearly full when batch sizes, START_ACQ and    *)
(* STOP_ACQ arrive                                                         *)
(***************************************************************************)
IndexDatagrams ==
    {HostCommand(CMD_START_ACQ, 0, 0),
     HostCommand(CMD_STOP_ACQ, 0, 0),
     HostCommand(CMD_CONFIGURE, CONFIG_BATCH_SIZE, 1),
     HostCommand(CMD_CONFIGURE, CONFIG_BATCH_SIZE, ACQUISITION_MAX_BATCH_SIZE),
     HostCommand(CMD_CONFIGURE, CONFIG_BATCH_SIZE, ACQUISITION_MAX_BATCH_SIZE + 1)}

InitIndex ==
    \E pending \in {ACQUISITION_MAX_BATCH_SIZE - 2, ACQUISITION_MAX_BATCH_SIZE - 1} :
        Collecting(ACQUISITION_MAX_BATCH_SIZE, pending)

NextIndex == ReadyLinkUp({ADC_MAX_VALUE}, IndexDatagrams)

SpecIndex == InitIndex /\ [][NextIndex]_vars

(***************************************************************************)
(* SpecRestart: acquisition is started, stopped and started again while    *)
(* batches of one and two samples are collected                            *)
(***************************************************************************)
RestartDatagrams ==
    {HostCommand(CMD_START_ACQ, 0, 0),
     HostCommand(CMD_STOP_ACQ, 0, 0)}

InitRestart == \E size \in {1, 2} : Configured(size)

NextRestart == ReadyLinkUp(AdcValues, RestartDatagrams)

SpecRestart == InitRestart /\ [][NextRestart]_vars

(***************************************************************************)
(* Properties of the codec (SpecCodec)                                     *)
(***************************************************************************)
Builders == {"ping", "pong", "status", "data"}

\* a status payload read back field by field, as the host does
DecodeStatus(b) ==
    [acquiring |-> b[1], channel |-> b[2], threshold_mv |-> RD16(b, 2),
     uptime |-> RD32(b, 4), samples_sent |-> RD32(b, 8)]

\* a data payload read back: channel, reserved, count, then the samples
DecodeData(b) ==
    [channel |-> b[1], reserved |-> b[2], sample_count |-> RD16(b, 2),
     samples |-> [i \in 1 .. ((Len(b) - 4) \div 2) |-> RD16(b, 2 + 2 * i)]]

\* C5: protocol_parse_packet returns InvalidMessage exactly when len < 7, or the
\* magic is not 0xDA7A, or len < 7 + declared payload_length; otherwise it returns
\* OK, payload_len is the declared length and the view is the declared number of
\* bytes from offset 7 on (bytes after them are ignored, no content is refused).
C5_ParseFraming ==
    c_call.op = "parse" =>
        LET a == c_call.args
            invalid == a.len < 7 \/ a.magic # 55930 \/ a.len < 7 + a.plen
        IN  /\ (c_parse.status = "INVALID_MSG") <=> invalid
            /\ ~invalid =>
                /\ c_parse.status = "OK"
                /\ c_parse.payload_len = a.plen
                /\ a.plen > 0 => c_parse.payload = {7}
                /\ c_parse.view = SubSeq(a.data, 8, 7 + a.plen)

\* a datagram longer than its packet was parsed: the bytes after the payload are ignored
C5_Witness ==
    /\ c_call.op = "parse"
    /\ c_parse.status = "OK"
    /\ c_call.args.plen > 0
    /\ c_call.args.len > 7 + c_call.args.plen

\* C6: parsing a packet a builder built succeeds and gives back the builder's message
\* type, the value the sequence counter had before the build, the size of the payload
\* built, and the payload built.
C6_RoundTrip ==
    (c_call.op \in Builders /\ c_parse.status # "NONE") =>
        LET a == c_call.args
            h == c_parse.header
        IN  /\ c_parse.status = "OK"
            /\ h.magic = 55930
            /\ h.sequence = c_call.seq_before
            /\ h.payload_len = c_parse.payload_len
            /\ Len(c_parse.view) = c_parse.payload_len
            /\ c_call.op = "ping" => h.msg_type = 1 /\ c_parse.payload_len = 0
            /\ c_call.op = "pong" => h.msg_type = 2 /\ c_parse.payload_len = 0
            /\ c_call.op = "status" =>
                /\ h.msg_type = 48
                /\ c_parse.payload_len = 12
                /\ DecodeStatus(c_parse.view) = a.status
            /\ c_call.op = "data" =>
                /\ h.msg_type = 16
                /\ c_parse.payload_len = 4 + 2 * a.sample_count
                /\ DecodeData(c_parse.view) =
                       [channel |-> a.channel, reserved |-> 0,
                        sample_count |-> a.sample_count, samples |-> a.samples]

\* a data packet of 500 samples built when the counter was 65535 was parsed back
C6_Witness ==
    /\ c_call.op = "data"
    /\ c_call.args.sample_count = 500
    /\ c_call.seq_before = 65535
    /\ c_parse.status = "OK"

\* C7: a builder call that succeeds leaves the sequence counter one higher (modulo
\* 65536) than it found it; one that fails (a null argument, a buffer too small)
\* leaves the sequence counter and the caller's out_len as they were.
C7_SequenceOncePerBuild ==
    c_call.op \in Builders =>
        /\ c_res.status = "OK" => sequence_counter = (c_call.seq_before + 1) % 65536
        /\ c_res.status # "OK" =>
            /\ c_res.status \in {"ERROR", "BUFFER_TOO_SMALL"}
            /\ sequence_counter = c_call.seq_before
            /\ c_out_len = c_call.out_len_before

\* a build failed for want of room after an earlier build had wrapped the counter to 0
C7_Witness ==
    /\ c_call.op = "data"
    /\ c_res.status = "BUFFER_TOO_SMALL"
    /\ c_call.seq_before = 0
    /\ c_call.out_len_before = 7
    /\ c_n = 2

\* C8 (as claimed): protocol_build_data_packet refuses, with the invalid-argument
\* error and without writing or advancing the counter, every sample count whose
\* payload 4 + 2 * sample_count exceeds 1400 bytes, whatever the buffer's capacity.
C8_PayloadLimit ==
    (c_call.op = "data" /\ c_call.args.null = "none"
        /\ 4 + 2 * c_call.args.sample_count > 1400) =>
        /\ c_res.status = "ERROR"
        /\ ~c_res.wrote
        /\ sequence_counter = c_call.seq_before

\* C9: a ping or pong built is 7 bytes long, a data packet of N samples 11 + 2N with
\* payload_length 4 + 2N in its header; with valid pointers a builder returns
\* BufferTooSmall exactly when the capacity is below that length.
C9_BuiltLengths ==
    (c_call.op \in Builders /\ c_call.args.null = "none") =>
        LET a == c_call.args
            length == CASE c_call.op \in {"ping", "pong"} -> 7
                        [] c_call.op = "status" -> 19
                        [] c_call.op = "data" -> 11 + 2 * a.sample_count
        IN  /\ (c_res.status = "BUFFER_TOO_SMALL") <=> (a.buffer_len < length)
            /\ a.buffer_len >= length =>
                /\ c_res.status = "OK"
                /\ c_out_len = length
                /\ RD16(c_buf, 5) = length - 7

\* a data packet of 500 samples was built into a buffer of exactly 1011 bytes
C9_Witness ==
    /\ c_call.op = "data"
    /\ c_call.args.sample_count = 500
    /\ c_call.args.buffer_len = 1011
    /\ c_res.status = "OK"
    /\ c_out_len = 1011


(***************************************************************************)
(* Properties of the two tasks                                             *)
(***************************************************************************)
\* the DATA packet the stack accepted from the acquisition task, read back
SentData == DecodeData(SubSeq(wire.bytes, HEADER_SIZE + 1, Len(wire.bytes)))

DataSent == obs.data.type = "DATA" /\ wire.by = "acquisition"

\* C1: every DATA packet the acquisition loop builds carries a sample_count equal to
\* the batch_size configured at the moment the batch completed, and its header
\* payload_length equals 4 + 2 * sample_count (SpecBatch).
C1_BatchSizeAtCompletion ==
    obs.built.type = "DATA" =>
        /\ obs.built.sample_count = obs.built.batch_done
        /\ RD16(acq_loc.tx, 5) = 4 + 2 * obs.built.sample_count

\* C2: no transmitted DATA packet contains a sample below mv_to_adc(threshold_mv) of
\* the threshold configured when the packet is built (SpecThreshold).
C2_AboveThresholdAtBuild ==
    DataSent =>
        \A i \in 1 .. SentData.sample_count :
            SentData.samples[i] >= mv_to_adc(obs.data.packet.threshold_mv)

\* C2 (amended): every sample of a transmitted DATA packet was at or above
\* mv_to_adc(threshold_mv) of the threshold the loop read for that sample.
C2_AboveThresholdWhenSampled ==
    DataSent =>
        \A i \in 1 .. SentData.sample_count :
            SentData.samples[i] >= obs.data.packet.gate[i]

\* a packet of two samples is transmitted whose second sample passed a higher
\* threshold than the first: CONFIGURE threshold was handled in mid-batch
C2_Witness ==
    /\ DataSent
    /\ SentData.sample_count = 2
    /\ obs.data.packet.gate[1] < obs.data.packet.gate[2]
    /\ SentData.samples[1] < SentData.samples[2]

\* C3: the acquisition task's send succeeds only while the network state is Ready
\* (SpecLink).
C3_SentOnlyWhenReady == obs.data.type = "DATA" => obs.data.net_state = "READY"

\* C4: without a reset in between, the i-th packet built carries the sequence number
\* i - 1 and the counter has advanced by the number of packets built; no number is
\* used twice (SpecSequence).
C4_SequenceIncreasing ==
    /\ \A i \in 1 .. Len(obs.seqs) : obs.seqs[i] = (i - 1) % U16
    /\ sequence_counter = Len(obs.seqs) % U16

\* C10: once START_ACQ from endpoint E is handled the target is E and the state is
\* Running; once STOP_ACQ is handled the state is Idle; the network task has
\* submitted no datagram for either (SpecCommands).
C10_StartStop ==
    obs.reply.type = "datagram" /\ obs.reply.done =>
        /\ obs.reply.cmd = CMD_START_ACQ =>
              /\ remote_target = obs.reply.remote
              /\ target_set_by_start
              /\ acq_state = "RUNNING"
              /\ ~obs.reply.submitted
        /\ obs.reply.cmd = CMD_STOP_ACQ =>
              /\ acq_state = "IDLE"
              /\ ~obs.reply.submitted

\* STOP_ACQ of one host is handled after START_ACQ of the other had started the
\* acquisition and a sample was buffered
C10_Witness ==
    /\ obs.reply.type = "datagram"
    /\ obs.reply.done
    /\ obs.reply.cmd = CMD_STOP_ACQ
    /\ target_set_by_start
    /\ remote_target # obs.reply.remote
    /\ sample_buffer # << >>
    /\ acq_state = "IDLE"

\* C11: once the first START_ACQ has been handled every DATA packet is addressed to
\* the sender of that first command, also after START_ACQ of other hosts
\* (SpecCommands).
C11_TargetLatched ==
    obs.data.type = "DATA" /\ wire.by = "acquisition" => wire.dest = obs.first

\* C12: every reply of the network task, the Pong for a Ping and the Status for a
\* GET_STATUS, is addressed to the sender of the request it answers, whatever the
\* transmit target is (SpecSequence).
C12_ReplyToSender ==
    wire.by = "network" =>
        /\ obs.reply.type = "datagram"
        /\ obs.reply.submitted
        /\ wire.dest = obs.reply.remote
        /\ wire.bytes[3] = (IF obs.reply.cmd = CMD_GET_STATUS
                            THEN MSG_TYPE_STATUS ELSE MSG_TYPE_PONG)

\* a Status goes to a host that is not the transmit target a START_ACQ had set
C12_Witness ==
    /\ wire.by = "network"
    /\ wire.bytes[3] = MSG_TYPE_STATUS
    /\ target_set_by_start
    /\ wire.dest # remote_target
    /\ acq_state = "RUNNING"

\* C13: the Status that answers a GET_STATUS handled next after CONFIGURE(reset
\* sequence) carries sequence 0, in every interleaving with the acquisition task
\* (SpecReset).
C13_StatusAfterReset ==
    /\ wire.by = "network"
    /\ obs.reply.type = "datagram"
    /\ obs.reply.cmd = CMD_GET_STATUS
    /\ obs.reply.after_reset
    => RD16(wire.bytes, 3) = 0

\* C14: the number of pending samples is at most batch_size in every state, and 0
\* after each batch boundary, wherever in an acquisition iteration the network task
\* handles a batch-size change or a START (SpecBatch).
C14_PendingWithinBatch ==
    /\ [](sample_index <= batch_size)
    /\ [][acq_pc = "reset" /\ acq_pc' # "reset" => sample_index' = 0]_vars

\* C15: for every accepted batch size B in 1 .. 500, with acquisition Running, the
\* network Ready and the link up, the B-th qualifying sample makes the acquisition
\* task build one DATA packet of exactly B samples and submit it for sending
\* (SpecLargeBatch).
C15_BatchBuiltAndSubmitted ==
    /\ acq_pc = "reset"
    /\ obs.batch_done \in 1 .. ACQUISITION_MAX_BATCH_SIZE
    => /\ obs.built.type = "DATA"
       /\ obs.built.sample_count = obs.batch_done
       /\ acq_loc.dest # NoEndpoint

\* C16: an accepted channel change resets the batch in progress: every sample of a
\* DATA packet was read on the channel in the packet's channel field, also when
\* CONFIGURE(channel) is handled in the middle of a batch (SpecChannel).
C16_SamplesOfPacketChannel ==
    obs.data.type = "DATA" /\ wire.by = "acquisition" =>
        \A i \in 1 .. obs.data.packet.sample_count :
            obs.data.packet.chan[i] = DecodeData(SubSeq(wire.bytes, 8, Len(wire.bytes))).channel

\* the datagram r is a CONFIGURE that calls a setter with a value out of range:
\* more than 3300 mV, more than 100 percent (the setter gets the low byte of param),
\* a batch size of 0 or above 500, a channel above 7
OutOfRange(r) ==
    /\ r.type = "datagram"
    /\ r.cmd = CMD_CONFIGURE
    /\ \/ r.param_type = CONFIG_THRESHOLD_MV /\ r.param > ADC_VREF_MV
       \/ r.param_type = CONFIG_THRESHOLD_PERCENT /\ r.param % 256 > 100
       \/ r.param_type = CONFIG_BATCH_SIZE /\ (r.param = 0 \/ r.param > ACQUISITION_MAX_BATCH_SIZE)
       \/ r.param_type = CONFIG_CHANNEL /\ r.param >= ADC_CHANNEL_MAX

\* C17: threshold_mv is in 0 .. 3300, batch_size in 1 .. 500 and the channel in
\* 0 .. 7 in every state, and a setter called with a value out of range returns an
\* error and leaves the configuration and the sample buffer as they were
\* (SpecConfigure).
C17_ConfigurationInRange ==
    /\ [](/\ threshold_mv \in 0 .. ADC_VREF_MV
          /\ batch_size \in 1 .. ACQUISITION_MAX_BATCH_SIZE
          /\ current_channel \in ADC_CHANNEL_0 .. (ADC_CHANNEL_MAX - 1))
    /\ [][obs.reply.type = "none" /\ OutOfRange(obs.reply') =>
             /\ obs.reply.rc' = -1
             /\ UNCHANGED << acq_shared, sample_buffer, sample_index >>]_vars

\* a batch size of 501 was refused while a sample was pending
C17_Witness ==
    /\ OutOfRange(obs.reply)
    /\ obs.reply.param_type = CONFIG_BATCH_SIZE
    /\ obs.reply.param = ACQUISITION_MAX_BATCH_SIZE + 1
    /\ obs.reply.rc = -1
    /\ acq_state = "RUNNING"
    /\ sample_index = 1
    /\ sample_buffer = << ADC_MAX_VALUE >>

\* C18: a CONFIGURE of the threshold in percent with a 16-bit param above 100 is
\* refused: threshold_mv stays as it was and no reply is sent (SpecConfigure).
C18_PercentAbove100Refused ==
    [][/\ obs.reply.type = "none"
       /\ obs.reply.type' = "datagram"
       /\ obs.reply.cmd' = CMD_CONFIGURE
       /\ obs.reply.param_type' = CONFIG_THRESHOLD_PERCENT
       /\ obs.reply.param' \in 101 .. 65535
       => /\ threshold_mv' = threshold_mv
          /\ ~obs.reply.submitted']_vars

\* C19: the acquisition state starts at Idle and changes only from Idle to Running
\* when a START is handled, from Running to Idle when a STOP is handled, and to Error
\* when the converter cannot be initialised in a channel change; it never goes from
\* Error to Running or to Idle (SpecState).
C19_StateTransitions ==
    /\ acq_state = "IDLE"
    /\ [][acq_state' # acq_state =>
             \/ /\ acq_state = "IDLE"
                /\ acq_state' = "RUNNING"
                /\ obs.reply.type = "datagram"
                /\ obs.reply.cmd = CMD_START_ACQ
                /\ net_pc = "start_acq"
             \/ /\ acq_state = "RUNNING"
                /\ acq_state' = "IDLE"
                /\ obs.reply.type = "none"
                /\ obs.reply.cmd' = CMD_STOP_ACQ
             \/ /\ acq_state' = "ERROR"
                /\ obs.reply.type = "none"
                /\ obs.reply.cmd' = CMD_CONFIGURE
                /\ obs.reply.param_type' = CONFIG_CHANNEL
                /\ obs.reply.rc' = -1]_vars

\* a STOP has brought a started acquisition that had collected a sample to Idle
C19_Witness ==
    /\ acq_state = "IDLE"
    /\ obs.reply.type = "datagram"
    /\ obs.reply.cmd = CMD_STOP_ACQ
    /\ target_set_by_start
    /\ sample_buffer = << ADC_MAX_VALUE >>
    /\ current_channel = 1

\* C20: running out of the 30 s for the link or the 30 s for the address is final:
\* once the network state is Error it never changes again, during bring-up and after
\* a link loss in the Ready loop (SpecLink).
C20_ErrorIsTerminal ==
    [][net_state = "ERROR" => net_state' = "ERROR"]_vars

C22_CountersMonotonic ==
    [][/\ net_stats.packets_sent' >= net_stats.packets_sent
       /\ net_stats.errors' >= net_stats.errors]_vars

\* C23: every failed send attempt, of a DATA packet, a Pong or a Status, adds exactly
\* one to the errors counter of the network statistics and leaves packets_sent as it
\* was (SpecStats).
C23_FailedSendCounted ==
    [][(\/ /\ acq_pc \in {"udp", "xmit"}
           /\ acq_pc' = "reset"
        \/ /\ obs.reply.type = "none"
           /\ obs.reply.type' = "datagram"
           /\ obs.reply.submitted'
           /\ wire.by' # "network")
       => /\ net_stats.errors' = net_stats.errors + 1
          /\ net_stats.packets_sent' = net_stats.packets_sent]_vars

\* C24: with the configuration unchanged, the samples of each DATA packet sent are
\* the next batch_size qualifying readings in the order they were read, none skipped
\* between consecutive packets (SpecOrder).
C24_SentInReadOrder ==
    DataSent =>
        /\ SentData.sample_count = batch_size
        /\ SentData.samples = obs.data.unsent

\* C24 (amended): with the configuration unchanged and acquisition Running, the
\* samples of each DATA packet the loop builds are the batch_size qualifying readings
\* since the last batch boundary, in the order they were read; a batch whose send
\* fails is dropped whole.
C24_BuiltInReadOrder ==
    obs.built.type = "DATA" =>
        LET d == DecodeData(SubSeq(acq_loc.tx, HEADER_SIZE + 1, acq_loc.packet_len)) IN
        /\ d.sample_count = batch_size
        /\ d.samples = obs.taken
        /\ d.channel = current_channel

\* a packet of the reading at the threshold followed by the reading above it is sent
C24_Witness ==
    /\ DataSent
    /\ SentData.samples = << 2047, ADC_MAX_VALUE >>
    /\ obs.taken = << 2047, ADC_MAX_VALUE >>
    /\ batch_size = 2

(***************************************************************************)
(* Properties of the socket layer                                          *)
(***************************************************************************)
\* the slot is one the stack dispatches to in blocking-receive mode
SlotReceiving ==
    /\ SOCKET_FLAG_USED \in flags
    /\ SOCKET_FLAG_BOUND \in flags
    /\ SOCKET_FLAG_CLOSING \notin flags

\* the step is a dispatch of a datagram
Arrival == n_arrived' = n_arrived + 1

\* C25 (SpecQueue): a datagram longer than a record is stored with the record's
\* capacity as its length, one that fits with its own length, and none is refused
\* for its length: a dispatch that finds a free record stores the datagram; a
\* successful udp_socket_recv reports a length that is at most the caller's
\* buffer length and at most the stored length.
C25_TruncatedAndBounded ==
    /\ [](sk_obs.last.type = "queued" =>
             sk_obs.last.stored =
                 (IF sk_obs.last.len > UDP_RECV_BUFFER_SIZE THEN UDP_RECV_BUFFER_SIZE
                  ELSE sk_obs.last.len))
    /\ [][Arrival /\ SlotReceiving /\ rx_pool.used < UDP_RX_QUEUE_LEN =>
             sk_obs.last.type' = "queued"]_vars
    /\ [](recv_res.status = "OK" =>
             /\ recv_res.received <= recv_res.buffer_len
             /\ recv_res.received <= recv_res.len)

\* a datagram of 1500 bytes was stored as 1472 and returned whole to a caller
\* with a buffer of 1500
C25_Witness ==
    /\ sk_obs.last.type = "queued"
    /\ sk_obs.last.len = UDP_RECV_BUFFER_SIZE + 28
    /\ sk_obs.last.stored = UDP_RECV_BUFFER_SIZE
    /\ recv_res.status = "OK"
    /\ recv_res.id = sk_obs.last.id
    /\ recv_res.received = UDP_RECV_BUFFER_SIZE
    /\ recv_res.buffer_len = PACKET_BUFFER_SIZE

\* the datagrams the receiver holds: the one osMessageQueueGet gave it
Held == IF recv_pc = "woken" /\ recv_loc.pkt.id > 0 THEN << recv_loc.pkt.id >> ELSE << >>

QueuedIds == [i \in 1 .. Len(rx_queue.msgs) |-> rx_queue.msgs[i].id]

C27_BlockedReceiverGetsError == recv_res.closing => recv_res.status = "ERROR"

\* C27 (SpecSocketFair): a call of udp_socket_recv that is waiting on the queue
\* when udp_socket_close is called returns, with UDP_STATUS_ERROR or, when its
\* timeout passes before the sentinel is put, with UDP_STATUS_TIMEOUT, never with
\* UDP_STATUS_OK; when udp_socket_close returns the slot is cleared, so a later
\* udp_socket_create can take it; a dispatch to the cleared slot queues nothing.
C27_CloseWakesReceiver ==
    /\ (recv_pc = "waiting" /\ recv_loc.closing) ~>
           (recv_pc = "idle" /\ recv_res.closing /\ recv_res.status \in {"ERROR", "TIMEOUT"})
    /\ [](recv_res.closing => recv_res.status \in {"ERROR", "TIMEOUT"})
    /\ [][close_pc = "marked" /\ close_pc' = "idle" =>
             flags' = {} /\ rx_queue' = NoQueue /\ rx_pool' = NoPool]_vars
    /\ [][Arrival /\ SOCKET_FLAG_USED \notin flags =>
             sk_obs.last.type' = "ignored" /\ rx_queue' = rx_queue /\ rx_pool' = rx_pool]_vars

\* the receiver that was waiting when the slot was closed got UDP_STATUS_ERROR, the
\* slot was created again, and a datagram that arrived in between was not queued
C27_Witness ==
    /\ recv_res.closing
    /\ recv_res.status = "ERROR"
    /\ flags = {SOCKET_FLAG_USED, SOCKET_FLAG_BOUND}
    /\ sk_obs.last.type = "ignored"
    /\ rx_queue.msgs = << >>

\* the last udp_socket_send was called with a payload it accepts
SendCalled == send_res.status # "NONE" /\ send_res.len > 0 /\ send_res.len <= UDP_MAX_PAYLOAD_SIZE

\* C28 (SpecSend): udp_socket_send calls netUDP_Send only when the slot had
\* SOCKET_FLAG_BOUND and the link was up when it looked; on a slot that is not
\* bound it fails and takes no buffer; with the link down it returns
\* UDP_STATUS_LINK_DOWN and takes no buffer; when netUDP_GetBuffer gives none it
\* returns UDP_STATUS_NO_MEMORY; when netUDP_Send fails it returns
\* UDP_STATUS_NET_ERROR.
C28_SendChecks ==
    SendCalled =>
        /\ send_res.handed => send_res.bound /\ send_res.link
        /\ ~send_res.bound => send_res.status = "NOT_INIT" /\ ~send_res.allocated
        /\ send_res.bound /\ ~send_res.link =>
               send_res.status = "LINK_DOWN" /\ ~send_res.allocated
        /\ send_res.bound /\ send_res.link /\ ~send_res.alloc_ok =>
               send_res.status = "NO_MEMORY" /\ ~send_res.handed
        /\ send_res.bound /\ send_res.link /\ send_res.alloc_ok /\ ~send_res.send_ok =>
               send_res.status = "NET_ERROR"
        /\ send_res.status = "OK" <=>
               send_res.bound /\ send_res.link /\ send_res.alloc_ok /\ send_res.send_ok

\* a send on the bound slot after a link-down notification, at a moment the stack
\* had no buffer to give
C28_Witness ==
    /\ SendCalled
    /\ send_res.bound
    /\ s_eth_link_known
    /\ ~send_res.link
    /\ ~send_res.alloc_ok
    /\ send_res.status = "LINK_DOWN"

(***************************************************************************)
(* Properties of the two tasks, continued                                  *)
(***************************************************************************)
\* C29 (SpecInvalid): a datagram shorter than 7 bytes, with a wrong magic, declaring
\* more payload than it carries, of an unknown message type, a CMD with less than
\* 4 bytes of payload, or with an unknown command code leaves the acquisition
\* state, the configuration, the transmit target and the sequence counter as they
\* are and is not answered; the network task keeps its state (NET_STATE_READY
\* stays NET_STATE_READY) and goes back to the top of its loop.
C29_InvalidDropped ==
    [][n_dgrams' = n_dgrams + 1 /\ Invalid(obs.reply.data') =>
          /\ UNCHANGED << acq_state, current_channel, threshold_mv, batch_size, sample_index >>
          /\ UNCHANGED << remote_target, target_set_by_start, sequence_counter >>
          /\ ~obs.reply.submitted'
          /\ wire' = wire
          /\ net_stats' = net_stats
          /\ net_state' = net_state
          /\ net_pc' = "loop"]_vars

\* a datagram the protocol has no place for was dropped, and the datagram after it,
\* a START, was handled
C29_Witness ==
    /\ obs.reply.type = "datagram"
    /\ obs.reply.after_invalid
    /\ obs.reply.cmd = CMD_START_ACQ
    /\ obs.reply.done
    /\ acq_state = "RUNNING"
    /\ net_state = "READY"
    /\ n_dgrams = 2

\* C30 (SpecCommands): the destination of every DATA packet handed to the stack
\* is, address and port together, an endpoint a START_ACQ stored in remote_target.
C30_TargetWhole == wire.by = "acquisition" => wire.dest \in Endpoints

(***************************************************************************)
(* Properties of the ADC driver (SpecAdcRead, SpecAdcDriver)               *)
(***************************************************************************)
\* C31 (SpecAdcReadFair): every adc_read_sync the acquisition task has started
\* returns, also when the network task changes the channel during the wait.
C31_ReadReturns == (adc_pc # "idle") ~> (adc_pc = "idle")

BatchPcs == {"build", "hdr", "send", "udp", "xmit", "count"}

\* C32 (SpecLargeBatch): a batch found complete is built and sent and then, in one
\* place, counted: exactly one of stats.packets_sent and stats.errors grows, by
\* one, packets_sent only if the packet was built and the stack took it, and
\* sample_index is 0 afterwards; the counters change nowhere else.
C32_BatchCounted ==
    [][/\ (acq_pc \in BatchPcs /\ acq_pc' # acq_pc) => acq_pc' \in BatchPcs \cup {"reset"}
       /\ (acq_pc = "reset" /\ acq_pc' # "reset") =>
              /\ acq_stats'.packets_sent >= acq_stats.packets_sent
              /\ acq_stats'.errors >= acq_stats.errors
              /\ acq_stats'.packets_sent + acq_stats'.errors
                    = acq_stats.packets_sent + acq_stats.errors + 1
              /\ acq_stats'.packets_sent > acq_stats.packets_sent =>
                     obs.built.type = "DATA" /\ obs.data.type = "DATA"
              /\ sample_index' = 0
       /\ ~(acq_pc = "reset" /\ acq_pc' # "reset") =>
              /\ acq_stats'.packets_sent = acq_stats.packets_sent
              /\ acq_stats'.errors = acq_stats.errors]_vars

C32_Witness ==
    /\ acq_pc = "top"
    /\ batch_size = 250
    /\ acq_stats.errors = 1
    /\ acq_stats.packets_sent = 0
    /\ acq_stats.samples_collected = 250
    /\ sample_index = 0

\* C33 (SpecState): since a STOP_ACQ was handled, with no acquisition_start
\* after it, the acquisition task has read at most one value, stored at most one
\* sample and sent at most one DATA packet, none at all if it was at the top of
\* its loop, and once it is back at the top of its loop it stays there.
C33_StopWithinIteration ==
    /\ [](obs.stop.on =>
             /\ obs.stop.reads <= 1 /\ obs.stop.stored <= 1 /\ obs.stop.sent <= 1
             /\ obs.stop.at = "top" =>
                    obs.stop.reads = 0 /\ obs.stop.stored = 0 /\ obs.stop.sent = 0)
    /\ [][obs.stop.on /\ obs'.stop.on /\ acq_pc = "top" =>
             /\ acq_pc' = "top"
             /\ obs'.stop = obs.stop
             /\ sample_buffer' = sample_buffer
             /\ wire'.by = "acquisition" => wire' = wire]_vars

C33_Witness ==
    /\ obs.stop.on
    /\ obs.stop.at = "chknet"
    /\ obs.stop.reads = 1 /\ obs.stop.stored = 1 /\ obs.stop.sent = 1
    /\ acq_pc = "top"
    /\ acq_state = "IDLE"

(***************************************************************************)
(* Properties of the link cache (SpecLinkCache)                            *)
(***************************************************************************)
\* C34 (SpecLinkCache): what udp_socket_is_link_up returns is what the address
\* (before any notification) or the event of the most recent notification
\* prescribes, for a notification received before the call or during it, also
\* when the call is made while netETH_Notify runs.
C34_LinkCache == lk_call.returned => lk_call.res \in lk_call.ok

(***************************************************************************)
(* Properties of the socket pool (SpecPool)                                *)
(***************************************************************************)
\* C35 (SpecPool): no two handles that are live are the same slot; a
\* udp_socket_create called with every slot in use returns NO_MEMORY; one that
\* fails leaves the slots in use and the stack's sockets handed out as they
\* were; one that succeeds takes a slot that was not in use.
C35_CreateAllOrNothing ==
    /\ Cardinality({pl_obs.live[k] : k \in DOMAIN pl_obs.live}) = Len(pl_obs.live)
    /\ pl_obs.res.op = "create" =>
           /\ pl_obs.res.before = SlotIds => pl_obs.res.status = "NO_MEMORY"
           /\ pl_obs.res.status # "OK" =>
                  /\ pl_obs.res.after = pl_obs.res.before
                  /\ pl_obs.res.stack_after = pl_obs.res.stack_before
           /\ pl_obs.res.status = "OK" =>
                  /\ pl_obs.res.handle \notin pl_obs.res.before
                  /\ pl_obs.res.after = pl_obs.res.before \cup {pl_obs.res.handle}

C35_Witness ==
    /\ pl_obs.res.op = "create"
    /\ pl_obs.res.status = "NO_MEMORY"
    /\ pl_obs.res.before = SlotIds
    /\ Len(pl_obs.live) = UDP_NUM_SOCKS

C38_IndexInBuffer ==
    /\ acq_pc = "store" => sample_index < ACQUISITION_MAX_BATCH_SIZE
    /\ sample_index <= ACQUISITION_MAX_BATCH_SIZE
    /\ Len(sample_buffer) <= ACQUISITION_MAX_BATCH_SIZE

C38_Witness ==
    /\ acq_pc = "inc"
    /\ acq_loc.idx = ACQUISITION_MAX_BATCH_SIZE - 1
    /\ Len(sample_buffer) = ACQUISITION_MAX_BATCH_SIZE
    /\ n_dgrams > 0
    /\ sample_index = 0

\* C39 (SpecRestart): every sample of a DATA packet handed to the stack was read
\* after the acquisition_start that took the state from Idle to Running last.
C39_NoSampleFromBeforeStart ==
    obs.data.type = "DATA" =>
        \A k \in DOMAIN obs.data.packet.epochs : obs.data.packet.epochs[k] = obs.data.epoch

(***************************************************************************)
(* Properties of the receive pool (SpecQueue)                              *)
(***************************************************************************)
\* C40 as stated (SpecQueue): the records allocated are those queued and the one
\* the receiver copies, and a pool with no record left means a full queue.
C40_FullPoolFullQueue ==
    /\ rx_pool.used = Len(rx_queue.msgs) + Len(Held)
    /\ rx_pool.used >= UDP_RX_QUEUE_LEN => Len(rx_queue.msgs) = UDP_RX_QUEUE_LEN

\* C40 (SpecQueue): while the slot is open the records allocated are those queued
\* and the at most one the receiver copies; a pool with no record left means a
\* queue that is full, or one short of full while the receiver copies a record.
C40_PoolAccounted ==
    /\ rx_pool.used = Len(rx_queue.msgs) + Len(Held)
    /\ Len(Held) <= 1
    /\ rx_pool.used <= UDP_RX_QUEUE_LEN
    /\ rx_pool.used >= UDP_RX_QUEUE_LEN =>
           \/ Len(rx_queue.msgs) = UDP_RX_QUEUE_LEN
           \/ Len(rx_queue.msgs) = UDP_RX_QUEUE_LEN - 1 /\ Len(Held) = 1

\* a datagram was dropped for want of a record while the queue had room
C40_Witness ==
    /\ SlotReceiving
    /\ rx_pool.used = UDP_RX_QUEUE_LEN
    /\ Len(rx_queue.msgs) = UDP_RX_QUEUE_LEN - 1
    /\ Len(Held) = 1
    /\ sk_obs.last.type = "dropped"

====
